---- MODULE Spec2Model ----
(***************************************************************************)
(* rkit: the repository cache (src/src/cache.rs) and the discovery command *)
(* that uses it (src/src/commands/ls.rs).                                  *)
(*                                                                         *)
(* The specifications share the variables:                                 *)
(*   Spec         the Cache API, one call at a time, each call one action  *)
(*   SpecStore    the persisting calls and the construction from the file, *)
(*                with a file system that refuses steps of the persist     *)
(*   SpecPersist  the same calls step by step (lock, mutation, temp write, *)
(*                rename) for two threads of one process                   *)
(*   SpecLs       list_repos over the process-wide cache                   *)
(*   SpecLsFaults list_repos while the cache layer fails                   *)
(*   SpecWalk     the parallel walker of list_repos, worker by worker      *)
(*   SpecWalkFair the walker with its threads scheduled                    *)
(*   SpecLock     every call of the Cache API step by step, two threads    *)
(*   SpecProcess  clone and list_repos in one process, each with its CACHE *)
(*   SpecRace     two processes persisting the same cache file             *)
(*   SpecCli      the WalkerConfig list_repos is run with                  *)
(*   SpecUrl      clone and the parsing of its URL                         *)
(*   SpecView     view_repo: its checks, then its commands                 *)
(*   SpecSave     two threads of one process that both persist             *)
(***************************************************************************)
EXTENDS Integers, Sequences, FiniteSets, TLC

(***************************************************************************)
(* Bounds.                                                                 *)
(***************************************************************************)
\* the system clock (epoch seconds) ranges over 0..MaxTime
MaxTime == 1

Times == 0..MaxTime

(***************************************************************************)
(* Paths.  A PathBuf is the sequence of its components.                    *)
(***************************************************************************)
Root == <<"w">>

Paths == {<<"w">>, <<"w", "a">>}

\* Option<T>: None is the empty sequence, Some(x) the one-element sequence
None == <<>>

Some(x) == <<x>>

\* Path::parent for the paths of the model
Parent(p) == SubSeq(p, 1, Len(p) - 1)

\* Path::starts_with
StartsWith(p, base) == Len(base) <= Len(p) /\ SubSeq(p, 1, Len(base)) = base

(***************************************************************************)
(* The file system the cache entries describe: every path is missing, a    *)
(* plain directory, or a directory with a .git entry.                      *)
(***************************************************************************)
PathKinds == {"missing", "dir", "repo"}

\* a directory exists only inside an existing directory
FsStates ==
    {f \in [Paths -> PathKinds] :
        \A p \in Paths : (f[p] # "missing" /\ Parent(p) \in Paths) => f[Parent(p)] # "missing"}

(***************************************************************************)
(* Cache entries, the cache file and its documents.                        *)
(***************************************************************************)
CacheEntry == [path : Paths, last_modified : Times, last_checked : Times]

\* the contents a file can have
Absent == [kind |-> "absent"]

\* a text that is not a CacheData document (hand-edited, foreign)
Garbage == [kind |-> "garbage"]

\* a proper prefix of a document: what fs::write leaves behind when it has
\* truncated or created the file and not yet written all of the text
Partial == [kind |-> "partial"]

\* the text of a CacheData value
Document(version, es) == [kind |-> "json", version |-> version, entries |-> es]

\* the file names of the model: stem and extension
DefaultCachePath == [stem |-> "cache", ext |-> "json"]

CachePaths == {DefaultCachePath, [stem |-> "cache", ext |-> "tmp"]}

FileNames == {[stem |-> "cache", ext |-> "json"], [stem |-> "cache", ext |-> "tmp"]}

\* Path::with_extension replaces the extension of the file name
WithExtension(f, ext) == [stem |-> f.stem, ext |-> ext]

\* the empty HashMap
EmptyEntries == [p \in {} |-> 0]

\* HashMap::insert
Put(m, k, v) == [x \in (DOMAIN m) \cup {k} |-> IF x = k THEN v ELSE m[x]]

\* the map restricted to a set of keys
Restrict(m, S) == [x \in S |-> m[x]]

VARIABLES
    now,        \* SystemTime::now() in epoch seconds
    fs,         \* the kind of every path
    fault,      \* the step of a persist that the file system refuses
    build,      \* [overflow_checks]: the build profile
    config,     \* CacheConfig
    entries,    \* Cache.entries, the HashMap behind the RwLock
    poisoned,   \* the RwLock is poisoned
    disk,       \* the contents of the cache file and of its temp file
    last,       \* the last call that returned: its name and result
    rw,         \* the RwLock: the thread that holds it for writing, those for reading
    th,         \* SpecPersist: every thread's call in progress
    ls,         \* SpecLs: the list_repos call in progress
    statics     \* the process's lazy statics: lib.rs CACHE, and whether ls.rs CACHE is built

envVars == <<now, fs, fault>>

cacheVars == <<entries, poisoned, disk>>

\* the variables a call of the Cache API made in one step leaves alone
stepVars == <<rw, th, ls, statics>>

vars ==
    <<now, fs, fault, build, config, entries, poisoned, disk, last, rw, th, ls, statics>>

(***************************************************************************)
(* Time and validity (cache.rs 254-304, 344-349).                          *)
(***************************************************************************)
\* Path::exists
exists(p) == fs[p] # "missing"

\* path.join(".git").exists()
is_git_repo(p) == fs[p] = "repo"

\* `now - entry.last_checked` on u64 underflows when last_checked is later
\* than now: a build with overflow checks panics there
validate_entry_panics(entry) == build.overflow_checks /\ entry.last_checked > now

\* `now - entry.last_checked > ttl_seconds` on u64.  Without overflow checks
\* an underflow wraps to 2^64 - (last_checked - now), which is above every
\* ttl of the model, so the entry counts as expired
expired(entry, ttl_seconds) ==
    IF entry.last_checked > now THEN TRUE ELSE now - entry.last_checked > ttl_seconds

\* Cache::validate_entry, when it returns
validate_entry(entry, ttl_seconds) ==
    IF expired(entry, ttl_seconds)
    THEN FALSE
    ELSE exists(entry.path) /\ is_git_repo(entry.path)

\* fs::metadata(path).modified() in epoch seconds, of an existing path
Mtime(p) == 0

\* Cache::update_entry
update_entry(p) ==
    [path |-> p,
     last_modified |-> IF exists(p) THEN Mtime(p) ELSE now,
     last_checked |-> now]

(***************************************************************************)
(* Files (cache.rs 212-252, 396-413).                                      *)
(***************************************************************************)
\* the names of directory entries that are not valid UTF-8
NonUtf8Names == {"\\377"}

\* Path::to_str succeeds
IsUtf8(p) == \A i \in 1..Len(p) : p[i] \notin NonUtf8Names

\* serde_json::to_string_pretty(&cache_data) succeeds: serde writes a path
\* as a string and fails on one that is not UTF-8
Serializable(es) == \A k \in DOMAIN es : IsUtf8(k) /\ IsUtf8(es[k].path)

\* the document keyed by the entries' own paths instead of the map's keys
Serialize_by_entry_path(es) ==
    Document(1, [p \in {es[k].path : k \in DOMAIN es} |->
                    es[CHOOSE k \in DOMAIN es : es[k].path = p]])

\* CacheData { entries, version: 1 } as text
Serialize(es) == Document(1, es)

\* load_cache without the version check
load_cache_any_version(text) ==
    IF text.kind = "absent" THEN [ok |-> TRUE, entries |-> EmptyEntries, err |-> "none"]
    ELSE IF text.kind = "json"
         THEN [ok |-> TRUE, entries |-> text.entries, err |-> "none"]
    ELSE [ok |-> FALSE, entries |-> EmptyEntries, err |-> "ParseError"]

\* load_cache: the Result it returns
load_cache(text) ==
    IF text.kind = "absent" THEN [ok |-> TRUE, entries |-> EmptyEntries, err |-> "none"]
    ELSE IF text.kind = "json" /\ text.version = 1
         THEN [ok |-> TRUE, entries |-> text.entries, err |-> "none"]
    ELSE IF text.kind = "json"
         THEN [ok |-> FALSE, entries |-> EmptyEntries, err |-> "InvalidVersion"]
    ELSE [ok |-> FALSE, entries |-> EmptyEntries, err |-> "ParseError"]

\* Cache::with_config: the entries the new Cache starts with
with_config(text) ==
    IF load_cache(text).ok THEN load_cache(text).entries ELSE EmptyEntries

\* self.cache_path.with_extension("tmp")
temp_path(cache_path) == WithExtension(cache_path, "tmp")

\* fs::write has created or truncated the file and not written all the text
fs_write_begin(d, f) == [d EXCEPT ![f] = Partial]

\* fs::write has written all the text
fs_write_end(d, f, text) == [d EXCEPT ![f] = text]

\* fs::remove_file
fs_remove_file(d, f) == [d EXCEPT ![f] = Absent]

\* fs::rename: one atomic replacement; renaming a file to itself does nothing
fs_rename(d, from, to) ==
    IF from = to THEN d ELSE [d EXCEPT ![to] = d[from], ![from] = Absent]

\* Cache::save_with_entries from call to return: the disk it leaves and the
\* result it returns
save_with_entries(es, d) ==
    LET target == config.cache_path
        temp == temp_path(target)
    IN  IF fault = "dir" THEN [disk |-> d, result |-> "DirectoryError"]
        ELSE IF ~Serializable(es) THEN [disk |-> d, result |-> "ParseError"]
        ELSE IF fault = "write"
             THEN [disk |-> fs_remove_file(fs_write_begin(d, temp), temp),
                   result |-> "IoError"]
        ELSE IF fault = "rename"
             THEN [disk |-> fs_remove_file(fs_write_end(d, temp, Serialize(es)), temp),
                   result |-> "IoError"]
        ELSE [disk |-> fs_rename(fs_write_end(d, temp, Serialize(es)), temp, target),
              result |-> "Ok"]

\* the cache file
file == disk[config.cache_path]

\* the temp file
tmp == disk[temp_path(config.cache_path)]

(***************************************************************************)
(* The Cache API, one call per action (cache.rs 125-210, 307-330).         *)
(***************************************************************************)
\* the steps of a persist the file system can refuse
Faults == {"none", "dir", "write", "rename"}

\* the batches update_and_save_many is called with
Batches == {<<>>, <<Root>>, <<Root \o <<"a">>>>, <<Root, Root \o <<"a">>>>}

\* the argument lists validate_entries is called with
PathLists == {<<Root>>, <<Root \o <<"a">>, Root>>}

Returned(op, result, value) == [op |-> op, result |-> result, value |-> value]

\* the capacity check with > for >=
is_full_off_by_one(es) ==
    /\ config.max_entries # None
    /\ Cardinality(DOMAIN es) > config.max_entries[1]

\* the capacity check of Cache::insert
is_full(es) ==
    /\ config.max_entries # None
    /\ Cardinality(DOMAIN es) >= config.max_entries[1]

\* the entries insert and validate_entry are called with
EntryInputs == [path : Paths, last_modified : {0}, last_checked : Times]

\* a direct call of Cache::validate_entry (as list_repos makes)
validate(entry) ==
    /\ last' = Returned("validate_entry",
                        IF validate_entry_panics(entry) THEN "panic"
                        ELSE IF validate_entry(entry, config.ttl_seconds) THEN "true"
                        ELSE "false",
                        None)
    /\ UNCHANGED <<envVars, build, config, cacheVars>>

\* a get that hands out only entries the validity check accepts
get_valid_only(path) ==
    /\ last' = Returned("get", "Ok",
                        IF ~poisoned /\ path \in DOMAIN entries
                           /\ ~validate_entry_panics(entries[path])
                           /\ validate_entry(entries[path], config.ttl_seconds)
                        THEN Some(entries[path]) ELSE None)
    /\ UNCHANGED <<envVars, build, config, cacheVars>>

\* Cache::get
get(path) ==
    /\ last' = Returned("get", "Ok",
                        IF ~poisoned /\ path \in DOMAIN entries
                        THEN Some(entries[path]) ELSE None)
    /\ UNCHANGED <<envVars, build, config, cacheVars>>

\* Cache::insert, also the body of update_and_save
insert_as(op, path, entry) ==
    /\ UNCHANGED <<envVars, build, config, poisoned>>
    /\ IF validate_entry_panics(entry)
       THEN /\ last' = Returned(op, "panic", None)
            /\ UNCHANGED <<entries, disk>>
       ELSE IF ~validate_entry(entry, config.ttl_seconds)
       THEN /\ last' = Returned(op, "InvalidEntryError", None)
            /\ UNCHANGED <<entries, disk>>
       ELSE IF poisoned
       THEN /\ last' = Returned(op, "LockError", None)
            /\ UNCHANGED <<entries, disk>>
       ELSE IF is_full(entries)
       THEN /\ last' = Returned(op, "CacheFull", None)
            /\ UNCHANGED <<entries, disk>>
       ELSE LET saved == save_with_entries(Put(entries, path, entry), disk)
            IN  /\ entries' = Put(entries, path, entry)
                /\ disk' = saved.disk
                /\ last' = Returned(op, saved.result, None)

insert(path, entry) == insert_as("insert", path, entry)

\* Cache::update_and_save
update_and_save(path) == insert_as("update_and_save", path, update_entry(path))

\* the keys retain keeps
retained(es) == {k \in DOMAIN es : validate_entry(es[k], config.ttl_seconds)}

\* Cache::validate_and_update.  A panic of validate_entry inside retain
\* unwinds through the write guard and poisons the lock; the entries that
\* retain had visited and dropped before stay dropped.
validate_and_update ==
    /\ UNCHANGED <<envVars, build, config>>
    /\ IF poisoned
       THEN /\ last' = Returned("validate_and_update", "LockError", None)
            /\ UNCHANGED <<entries, poisoned, disk>>
       ELSE IF \E k \in DOMAIN entries : validate_entry_panics(entries[k])
       THEN /\ \E dropped \in SUBSET ((DOMAIN entries) \ retained(entries)) :
                 /\ \A k \in dropped : ~validate_entry_panics(entries[k])
                 /\ entries' = Restrict(entries, (DOMAIN entries) \ dropped)
            /\ poisoned' = TRUE
            /\ last' = Returned("validate_and_update", "panic", None)
            /\ UNCHANGED disk
       ELSE LET kept == Restrict(entries, retained(entries))
                saved == save_with_entries(kept, disk)
            IN  /\ entries' = kept
                /\ disk' = saved.disk
                /\ last' = Returned("validate_and_update", saved.result, None)
                /\ UNCHANGED poisoned

\* the paths validate_entries keeps, in the order of the argument
valid_paths(paths) ==
    SelectSeq(paths, LAMBDA p : p \in DOMAIN entries
                                /\ validate_entry(entries[p], config.ttl_seconds))

\* Cache::validate_entries
validate_entries(paths) ==
    /\ UNCHANGED <<envVars, build, config, cacheVars>>
    /\ IF poisoned
       THEN last' = Returned("validate_entries", "LockError", None)
       ELSE IF \E i \in 1..Len(paths) :
                   paths[i] \in DOMAIN entries /\ validate_entry_panics(entries[paths[i]])
       THEN last' = Returned("validate_entries", "panic", None)
       ELSE last' = Returned("validate_entries", "Ok", valid_paths(paths))

\* Cache::save
save ==
    /\ UNCHANGED <<envVars, build, config, entries, poisoned>>
    /\ IF poisoned
       THEN /\ last' = Returned("save", "LockError", None)
            /\ UNCHANGED disk
       ELSE LET saved == save_with_entries(entries, disk)
            IN  /\ disk' = saved.disk
                /\ last' = Returned("save", saved.result, None)

\* the for loop of update_and_save_many over paths[i..]
RECURSIVE insert_many(_, _, _)
insert_many(es, paths, i) ==
    IF i > Len(paths) THEN es
    ELSE insert_many(Put(es, paths[i], update_entry(paths[i])), paths, i + 1)

\* Cache::update_and_save_many
update_and_save_many(paths) ==
    /\ UNCHANGED <<envVars, build, config, poisoned>>
    /\ IF poisoned
       THEN /\ last' = Returned("update_and_save_many", "LockError", None)
            /\ UNCHANGED <<entries, disk>>
       ELSE LET saved == save_with_entries(insert_many(entries, paths, 1), disk)
            IN  /\ entries' = insert_many(entries, paths, 1)
                /\ disk' = saved.disk
                /\ last' = Returned("update_and_save_many", saved.result, None)

\* the process ends and a new one constructs its Cache: Cache::with_config
\* never fails, a file it cannot load gives an empty cache
Construct ==
    /\ entries' = with_config(file)
    /\ poisoned' = FALSE
    /\ last' = Returned("with_config", "Ok", None)
    /\ UNCHANGED <<envVars, build, config, disk>>

(***************************************************************************)
(* The environment.                                                        *)
(***************************************************************************)
\* the system clock is read again: SystemTime is not monotonic
Tick ==
    /\ \E t \in Times \ {now} : now' = t
    /\ UNCHANGED <<fs, fault, build, config, cacheVars, last, stepVars>>

\* directories and their .git entries come and go
FsChange ==
    /\ \E f \in FsStates \ {fs} : fs' = f
    /\ UNCHANGED <<now, fault, build, config, cacheVars, last, stepVars>>

\* the file system starts or stops refusing a step of the persist
FaultChange ==
    /\ \E f \in Faults \ {fault} : fault' = f
    /\ UNCHANGED <<now, fs, build, config, cacheVars, last, stepVars>>

(***************************************************************************)
(* Spec: the calls of the Cache API in any order, with the clock and the   *)
(* directories changing between them; the file system refuses no write and *)
(* the process starts from a file an earlier persist has left.             *)
(***************************************************************************)
\* the cache files an earlier persist can have left
PersistedFiles ==
    {Absent,
     Document(1, [p \in {Root} |-> [path |-> Root, last_modified |-> 0, last_checked |-> MaxTime]])}

\* the cache files a process can find when it starts
InitialFiles ==
    {Absent, Garbage,
     Document(2, EmptyEntries),
     Document(2, [p \in {Root} |-> [path |-> Root, last_modified |-> 0, last_checked |-> 0]]),
     Document(1, [p \in {Root} |-> [path |-> Root, last_modified |-> 0, last_checked |-> MaxTime]])}

\* CacheConfig.max_entries of the model, when it is set
MaxEntries == 1

\* no call in progress, the lock free
Idle ==
    /\ rw = [writer |-> None, readers |-> {}]
    /\ th = <<>>
    /\ ls = <<>>

\* the Cache the calls go to is built; lib.rs CACHE is not yet
OneCache == [lib_CACHE |-> None, ls_CACHE |-> TRUE]

InitCommon ==
    /\ now \in Times
    /\ fs \in FsStates
    /\ build \in [overflow_checks : BOOLEAN]
    /\ poisoned = FALSE
    /\ last = Returned("with_config", "Ok", None)
    /\ statics = OneCache

Init ==
    /\ InitCommon
    /\ Idle
    /\ fault = "none"
    /\ config \in [ttl_seconds : {MaxTime - 1},
                   max_entries : {None, Some(MaxEntries)},
                   cache_path : {DefaultCachePath}]
    /\ \E text \in PersistedFiles :
         /\ disk = [f \in FileNames |-> IF f = DefaultCachePath THEN text ELSE Absent]
         /\ entries = with_config(text)

Next ==
    \/ \E e \in EntryInputs : validate(e) /\ UNCHANGED stepVars
    \/ \E p \in Paths : get(p) /\ UNCHANGED stepVars
    \/ \E p \in Paths, e \in EntryInputs : insert(p, e) /\ UNCHANGED stepVars
    \/ \E p \in Paths : update_and_save(p) /\ UNCHANGED stepVars
    \/ validate_and_update /\ UNCHANGED stepVars
    \/ \E ps \in PathLists : validate_entries(ps) /\ UNCHANGED stepVars
    \/ save /\ UNCHANGED stepVars
    \/ \E ps \in Batches : update_and_save_many(ps) /\ UNCHANGED stepVars
    \/ Construct /\ UNCHANGED stepVars
    \/ Tick
    \/ FsChange

Spec == Init /\ [][Next]_vars

(***************************************************************************)
(* Claims checked under Spec.                                              *)
(***************************************************************************)
\* the validity predicate as the specification states it, over the integers:
\* (now - last_checked) <= ttl and the path exists and path/.git exists
ValidityPredicate(entry, ttl_seconds) ==
    /\ now - entry.last_checked <= ttl_seconds
    /\ exists(entry.path)
    /\ is_git_repo(entry.path)

\* C3: for every entry and ttl, validate_entry returns true if and only if
\* (now - last_checked) <= ttl and the path exists and path/.git exists.
C3_ValidateEntryIffPredicate ==
    [][\A e \in EntryInputs :
          validate(e) =>
              (last'.result = "true" <=> ValidityPredicate(e, config.ttl_seconds))]_vars

\* C3 (witness of the divergence): validate_entry has judged an entry whose
\* last_checked is later than the clock
C3_FutureEntryJudged ==
    /\ last.op = "validate_entry"
    /\ last.result \in {"false", "panic"}
    /\ \E e \in EntryInputs : e.last_checked > now /\ ValidityPredicate(e, config.ttl_seconds)

\* C4: insert of an entry that fails the validity predicate returns the
\* invalid-entry error and leaves the entries and the cache file unchanged.
C4_InvalidInsertRejected ==
    [][\A p \in Paths, e \in EntryInputs :
          (insert(p, e) /\ ~ValidityPredicate(e, config.ttl_seconds)) =>
              /\ last'.result = "InvalidEntryError"
              /\ entries' = entries
              /\ disk' = disk]_vars

\* the part of C4 that holds in every build: an insert that returns the
\* invalid-entry error changed neither the entries nor the disk, and an
\* insert of an entry failing the predicate never stores it
C4_InvalidInsertChangesNothing ==
    [][\A p \in Paths, e \in EntryInputs :
          (insert(p, e) /\ ~ValidityPredicate(e, config.ttl_seconds)) =>
              /\ last'.result \in {"InvalidEntryError", "panic"}
              /\ entries' = entries
              /\ disk' = disk]_vars

\* C5: with max_entries = N and N entries stored, an insert of a further
\* distinct path whose entry passes the validation fails with CacheFull and
\* leaves the entries and the cache file as they were, N entries.
C5_FullCacheRejectsInsert ==
    [][\A p \in Paths, e \in EntryInputs :
          ( /\ config.max_entries # None
            /\ Cardinality(DOMAIN entries) = config.max_entries[1]
            /\ p \notin DOMAIN entries
            /\ ~poisoned
            /\ ~validate_entry_panics(e)
            /\ validate_entry(e, config.ttl_seconds)
            /\ insert(p, e) ) =>
              /\ last'.result = "CacheFull"
              /\ entries' = entries
              /\ disk' = disk
              /\ Cardinality(DOMAIN entries') = config.max_entries[1]]_vars

\* C5 (witness): an insert has been refused with CacheFull while the store
\* and the cache file both hold the N entries
C5_CacheFullReturned ==
    /\ last.op = "insert"
    /\ last.result = "CacheFull"
    /\ config.max_entries = Some(MaxEntries)
    /\ Cardinality(DOMAIN entries) = MaxEntries
    /\ with_config(file) = entries
    /\ \E p \in Paths : p \notin DOMAIN entries /\ is_git_repo(p)

\* C6: validate_and_update, when it gets the lock, removes exactly the
\* entries that fail the validity predicate and leaves the others unchanged,
\* and a second call in the state it leaves would remove nothing more.
C6_PruneExactlyInvalid ==
    [][(validate_and_update /\ ~poisoned) =>
          /\ entries' = Restrict(entries,
                 {k \in DOMAIN entries : ValidityPredicate(entries[k], config.ttl_seconds)})
          /\ \A k \in DOMAIN entries' : ValidityPredicate(entries'[k], config.ttl_seconds)]_vars

\* C6 (witness of the divergence): validate_and_update has run on a store
\* holding an entry that satisfies the predicate and is stamped in the future
C6_FutureEntryPruned ==
    /\ last.op = "validate_and_update"
    /\ last.result = "Ok"
    /\ entries = EmptyEntries
    /\ \E e \in EntryInputs : e.last_checked > now /\ ValidityPredicate(e, config.ttl_seconds)

\* C22: get(path) never changes the entries in memory and never writes the
\* cache file; it returns the stored entry for path if there is one, valid
\* or not, and returns nothing, not an error, when the lock is poisoned.
C22_GetIsPureLookup ==
    [][\A p \in Paths :
         (last'.op = "get" /\ get(p)) =>
            /\ entries' = entries
            /\ disk' = disk
            /\ poisoned' = poisoned
            /\ last'.result = "Ok"
            /\ last'.value = IF poisoned \/ p \notin DOMAIN entries
                             THEN None ELSE Some(entries[p])]_vars

\* C22 (witness): get has returned a stored entry that is no longer valid
C22_GetReturnedInvalidEntry ==
    /\ last.op = "get"
    /\ last.value # None
    /\ ~build.overflow_checks
    /\ ~validate_entry(last.value[1], config.ttl_seconds)

\* the elements of paths with a stored entry that satisfies the validity
\* predicate, in the order of paths
PredicateValidPaths(paths) ==
    SelectSeq(paths, LAMBDA p : p \in DOMAIN entries
                                /\ ValidityPredicate(entries[p], config.ttl_seconds))

\* C23: validate_entries(paths) returns exactly those elements of paths that
\* have a stored entry satisfying the validity predicate, in input order,
\* and changes neither the entries in memory nor the cache file.
C23_ValidateEntriesExactlyValid ==
    [][\A ps \in PathLists :
         (last'.op = "validate_entries" /\ ~poisoned /\ validate_entries(ps)) =>
            /\ last'.result = "Ok"
            /\ last'.value = PredicateValidPaths(ps)
            /\ entries' = entries
            /\ disk' = disk]_vars

\* C23 (the divergence): validate_entries has left out, or has panicked on,
\* a path whose stored entry satisfies the validity predicate
C23_FutureEntryLeftOut ==
    /\ last.op = "validate_entries"
    /\ Root \in DOMAIN entries
    /\ ValidityPredicate(entries[Root], config.ttl_seconds)
    /\ entries[Root].last_checked > now
    /\ \/ last.result = "panic"
       \/ last.result = "Ok" /\ \A i \in 1..Len(last.value) : last.value[i] # Root

\* C23 when no stored entry is stamped later than the clock
C23_ValidateEntriesUnlessFutureStamp ==
    [][\A ps \in PathLists :
         (/\ last'.op = "validate_entries"
          /\ ~poisoned
          /\ \A k \in DOMAIN entries : entries[k].last_checked <= now
          /\ validate_entries(ps)) =>
            /\ last'.result = "Ok"
            /\ last'.value = PredicateValidPaths(ps)
            /\ entries' = entries
            /\ disk' = disk]_vars

\* C24: whenever insert or update_and_save is called with a path that is
\* already a key of the store and a valid entry, the stored entry for that
\* path is replaced by the new one and the number of entries is unchanged,
\* also when the store already holds max_entries entries.
C24_ReinsertReplaces ==
    [][/\ \A p \in Paths, e \in EntryInputs :
            (/\ p \in DOMAIN entries
             /\ ~poisoned
             /\ e.last_checked <= now
             /\ ValidityPredicate(e, config.ttl_seconds)
             /\ insert(p, e)) =>
                /\ entries' = Put(entries, p, e)
                /\ Cardinality(DOMAIN entries') = Cardinality(DOMAIN entries)
       /\ \A p \in Paths :
            (/\ p \in DOMAIN entries
             /\ ~poisoned
             /\ ValidityPredicate(update_entry(p), config.ttl_seconds)
             /\ update_and_save(p)) =>
                /\ entries' = Put(entries, p, update_entry(p))
                /\ Cardinality(DOMAIN entries') = Cardinality(DOMAIN entries)]_vars

\* C24 (the divergence): update_and_save has returned CacheFull although
\* every path it accepts is already a key of the store
C24_ReinsertRefused ==
    /\ last.op = "update_and_save"
    /\ last.result = "CacheFull"
    /\ \A p \in Paths : is_git_repo(p) => p \in DOMAIN entries

\* C24 for a store that holds fewer than max_entries entries
C24_ReinsertReplacesBelowCapacity ==
    [][/\ \A p \in Paths, e \in EntryInputs :
            (/\ p \in DOMAIN entries
             /\ ~poisoned
             /\ ~is_full(entries)
             /\ e.last_checked <= now
             /\ ValidityPredicate(e, config.ttl_seconds)
             /\ insert(p, e)) =>
                /\ entries' = Put(entries, p, e)
                /\ Cardinality(DOMAIN entries') = Cardinality(DOMAIN entries)
       /\ \A p \in Paths :
            (/\ p \in DOMAIN entries
             /\ ~poisoned
             /\ ~is_full(entries)
             /\ ValidityPredicate(update_entry(p), config.ttl_seconds)
             /\ update_and_save(p)) =>
                /\ entries' = Put(entries, p, update_entry(p))
                /\ Cardinality(DOMAIN entries') = Cardinality(DOMAIN entries)]_vars

\* the number of entries of a cache file, none when it is no document
FileCount(text) == IF text.kind = "json" THEN Cardinality(DOMAIN text.entries) ELSE 0

\* C32: with max_entries = N, after any sequence of cache operations the
\* number of entries in memory and the number of entries in the cache file
\* never exceed N.
C32_NeverMoreThanMaxEntries ==
    config.max_entries # None =>
        /\ Cardinality(DOMAIN entries) <= config.max_entries[1]
        /\ FileCount(file) <= config.max_entries[1]

\* C32 (the divergence): update_and_save_many has returned Ok and left
\* more than max_entries entries in memory and in the file
C32_BatchBeyondMaxEntries ==
    /\ config.max_entries = Some(MaxEntries)
    /\ last = Returned("update_and_save_many", "Ok", None)
    /\ Cardinality(DOMAIN entries) > MaxEntries
    /\ FileCount(file) > MaxEntries

\* C32 for insert, update_and_save and validate_and_update: a call of one
\* of them on a store within the bound leaves the store, and the file when
\* it writes it, within the bound
C32_SingleInsertsKeepTheBound ==
    [][(/\ config.max_entries # None
        /\ last'.op \in {"insert", "update_and_save", "validate_and_update"}
        /\ Cardinality(DOMAIN entries) <= config.max_entries[1]) =>
            /\ Cardinality(DOMAIN entries') <= config.max_entries[1]
            /\ file' # file => FileCount(file') <= config.max_entries[1]]_vars

\* the step adds an entry under the key p, or replaces the one there
Added(p) ==
    /\ p \in DOMAIN entries'
    /\ p \notin DOMAIN entries \/ entries'[p] # entries[p]

\* C33: every entry that insert, update_and_save or update_and_save_many
\* adds to the store satisfies the validity predicate at the moment it is
\* added; update_and_save_many adds no entry for a path that does not exist
\* or has no .git.
C33_AddedEntriesAreValid ==
    [][last'.op \in {"insert", "update_and_save", "update_and_save_many"} =>
          \A p \in Paths :
              Added(p) => ValidityPredicate(entries'[p], config.ttl_seconds)]_vars

\* C33 (the divergence): update_and_save_many has returned Ok and the store
\* holds an entry for a path that did not exist when the entry was made:
\* update_entry has put the time of the call for its last_modified
C33_EntryForMissingPath ==
    /\ last = Returned("update_and_save_many", "Ok", None)
    /\ now = 1
    /\ \E p \in DOMAIN entries :
         /\ ~exists(p)
         /\ entries[p].last_modified = now
         /\ entries[p].last_checked = now

\* C33 for insert and update_and_save
C33_InsertedEntriesAreValid ==
    [][last'.op \in {"insert", "update_and_save"} =>
          \A p \in Paths :
              Added(p) => ValidityPredicate(entries'[p], config.ttl_seconds)]_vars

\* C34: in every reachable state of the store each key maps to an entry
\* whose path field is the key: insert(path, entry) stores an entry only
\* under the path it describes.
C34_KeyIsEntryPath ==
    \A k \in DOMAIN entries : entries[k].path = k

\* C34 (the divergence): insert has returned Ok and the store and the cache
\* file hold an entry under a key that is not its path
C34_EntryUnderAnotherKey ==
    /\ last = Returned("insert", "Ok", None)
    /\ \E k \in DOMAIN entries : entries[k].path # k
    /\ file = Serialize(entries)

\* C34 for update_and_save and update_and_save_many, and for insert called
\* with the path of its entry: the entry added under a key has the key for
\* its path
C34_KeyIsEntryPathWhenCalledWithIt ==
    [][/\ last'.op \in {"update_and_save", "update_and_save_many"} =>
            \A p \in Paths : Added(p) => entries'[p].path = p
       /\ \A e \in EntryInputs :
            (last'.op = "insert" /\ insert(e.path, e)) =>
                \A p \in Paths : Added(p) => entries'[p].path = p]_vars

\* the entry is stamped later than the clock reads
FutureStamped(entry) == entry.last_checked > now

\* C35: validate_entry never underflows its age computation: for every
\* entry, one stamped later than the current time included, it returns
\* without a panic, and the future-stamped entry is judged not expired, so
\* that it is valid exactly when its path exists and has a .git; and
\* validate_and_update, which calls it for every stored entry, does not
\* panic and keeps such an entry.
C35_AgeNeverUnderflows ==
    [][/\ \A e \in EntryInputs :
            validate(e) =>
                /\ last'.result # "panic"
                /\ FutureStamped(e) =>
                      (last'.result = "true" <=> (exists(e.path) /\ is_git_repo(e.path)))
       /\ (last'.op = "validate_and_update" /\ ~poisoned /\ validate_and_update) =>
                /\ last'.result # "panic"
                /\ \A k \in DOMAIN entries :
                      (FutureStamped(entries[k]) /\ exists(entries[k].path)
                                                 /\ is_git_repo(entries[k].path))
                          => k \in DOMAIN entries']_vars

\* C35 (the divergence): in a build with overflow checks validate_entry
\* has panicked on the subtraction for a future-stamped entry
C35_SubtractionPanicked ==
    /\ build.overflow_checks
    /\ last = Returned("validate_entry", "panic", None)
    /\ \E e \in EntryInputs : FutureStamped(e)

\* C35 for the entries stamped at or before the current time: no panic,
\* and the age is the difference of the two times
C35_AgeExactUnlessFutureStamped ==
    [][/\ \A e \in EntryInputs :
            (~FutureStamped(e) /\ validate(e)) =>
                /\ last'.result # "panic"
                /\ last'.result = "true" <=>
                      (/\ now - e.last_checked <= config.ttl_seconds
                       /\ exists(e.path) /\ is_git_repo(e.path))
       /\ (/\ last'.op = "validate_and_update"
           /\ ~poisoned
           /\ \A k \in DOMAIN entries : ~FutureStamped(entries[k])
           /\ validate_and_update) =>
                /\ last'.result # "panic"
                /\ DOMAIN entries' =
                      {k \in DOMAIN entries :
                          /\ now - entries[k].last_checked <= config.ttl_seconds
                          /\ exists(entries[k].path) /\ is_git_repo(entries[k].path)}]_vars

(***************************************************************************)
(* SpecStore: the calls that persist, and the construction of the cache    *)
(* from the file they leave, while the file system refuses steps of the    *)
(* persist.  Every path is a repository throughout.                        *)
(***************************************************************************)
InitStore ==
    /\ InitCommon
    /\ Idle
    /\ ~build.overflow_checks
    /\ fs = [p \in Paths |-> "repo"]
    /\ fault \in Faults
    /\ config \in [ttl_seconds : {MaxTime - 1},
                   max_entries : {None},
                   cache_path : CachePaths]
    /\ \E text \in InitialFiles :
         /\ disk = [f \in FileNames |-> IF f = config.cache_path THEN text ELSE Absent]
         /\ entries = with_config(text)

NextStore ==
    \/ \E p \in Paths, e \in EntryInputs : insert(p, e) /\ UNCHANGED stepVars
    \/ save /\ UNCHANGED stepVars
    \/ \E ps \in Batches : update_and_save_many(ps) /\ UNCHANGED stepVars
    \/ validate_and_update /\ UNCHANGED stepVars
    \/ Construct /\ UNCHANGED stepVars
    \/ Tick
    \/ FaultChange

SpecStore == InitStore /\ [][NextStore]_vars

(***************************************************************************)
(* Claims checked under SpecStore.                                         *)
(***************************************************************************)
\* the file does not parse as a CacheData, or its version is not 1
Unloadable(text) ==
    \/ text.kind \in {"garbage", "partial"}
    \/ text.kind = "json" /\ text.version # 1

\* C7: constructing the cache from a file that fails to parse or whose
\* version is not 1 gives an empty cache and returns no error.
C7_UnloadableFileGivesEmptyCache ==
    last.op = "with_config" =>
        /\ last.result = "Ok"
        /\ Unloadable(file) => entries = EmptyEntries

\* C7 (witness): a cache was constructed from a version-2 file that lists
\* an entry, and it is empty
C7_Version2FileLoaded ==
    /\ last.op = "with_config"
    /\ file.kind = "json"
    /\ file.version = 2
    /\ file.entries # EmptyEntries
    /\ entries = EmptyEntries

\* the calls that persist the entries
PersistingCalls == {"insert", "update_and_save", "update_and_save_many", "save",
                    "validate_and_update"}

Threads == {"t1", "t2"}

\* a thread outside every call
IdleThread ==
    [pc |-> "idle", op |-> "none", paths |-> <<>>, entry |-> None, i |-> 0, json |-> Absent]

\* the guard of thread t is dropped
Release(t) ==
    [writer |-> IF rw.writer = Some(t) THEN None ELSE rw.writer,
     readers |-> rw.readers \ {t}]

\* the call of thread t returns, dropping its guard; base is what the
\* step has made of the threads
ReturnFrom(base, t, result, value) ==
    /\ last' = Returned(th[t].op, result, value)
    /\ th' = [base EXCEPT ![t] = IdleThread]
    /\ rw' = Release(t)

\* the call of thread t returns, dropping its guard
Return(t, result, value) == ReturnFrom(th, t, result, value)

\* an open file is the inode, not the name.  The threads after thread t has
\* renamed the temp file onto the target: a file another thread has open
\* for its write_all has moved with it, and one that was at the target is
\* unlinked
Renamed(t) ==
    IF temp_path(config.cache_path) = config.cache_path THEN th
    ELSE [u \in DOMAIN th |->
            IF u = t THEN th[u]
            ELSE [th[u] EXCEPT !.pc = CASE @ = "writing" -> "writing_target"
                                        [] @ = "writing_target" -> "writing_unlinked"
                                        [] OTHER -> @]]

\* the threads after thread t has removed the temp file
Removed(t) ==
    [u \in DOMAIN th |->
        IF u = t THEN th[u]
        ELSE [th[u] EXCEPT !.pc = IF @ = "writing" THEN "writing_unlinked" ELSE @]]

\* thread t enters a call
Call(t, op, paths) ==
    /\ th[t].pc = "idle"
    /\ th' = [th EXCEPT ![t] = [pc |-> "lock", op |-> op, paths |-> paths,
                                entry |-> None, i |-> 1, json |-> Absent]]
    /\ UNCHANGED <<envVars, build, config, cacheVars, last, rw, ls, statics>>

Call_update_and_save_many(t, paths) == Call(t, "update_and_save_many", paths)

Call_save(t) == Call(t, "save", <<>>)

Call_get(t, path) == Call(t, "get", <<path>>)

Call_validate_entries(t, paths) == Call(t, "validate_entries", paths)

\* the calls that take the write guard
WriteLocking == {"insert", "update_and_save", "update_and_save_many", "validate_and_update"}

\* self.entries.write(): waits until no guard is held
StepLockWrite(t) ==
    /\ th[t].pc = "lock"
    /\ th[t].op \in WriteLocking
    /\ rw.writer = None
    /\ rw.readers = {}
    /\ UNCHANGED <<envVars, build, config, cacheVars, ls, statics>>
    /\ IF poisoned
       THEN Return(t, "LockError", None)
       ELSE /\ rw' = [rw EXCEPT !.writer = Some(t)]
            /\ th' = [th EXCEPT ![t].pc =
                          CASE th[t].op = "validate_and_update" -> "retain"
                            [] th[t].op \in {"insert", "update_and_save"} -> "check"
                            [] OTHER -> IF Len(th[t].paths) = 0 THEN "dir" ELSE "loop"]
            /\ UNCHANGED last

\* self.entries.read() that does not wait for the writer
StepLockRead_past_writer(t) ==
    /\ th[t].pc = "lock"
    /\ th[t].op \notin WriteLocking
    /\ UNCHANGED <<envVars, build, config, cacheVars, ls, statics>>
    /\ IF poisoned
       THEN Return(t, IF th[t].op = "get" THEN "Ok" ELSE "LockError", None)
       ELSE /\ rw' = [rw EXCEPT !.readers = @ \cup {t}]
            /\ th' = [th EXCEPT ![t].pc = IF th[t].op = "save" THEN "dir" ELSE "read"]
            /\ UNCHANGED last

\* self.entries.read(): waits until no write guard is held.  get turns a
\* poisoned lock into None, the other calls into LockError
StepLockRead(t) ==
    /\ th[t].pc = "lock"
    /\ th[t].op \notin WriteLocking
    /\ rw.writer = None
    /\ UNCHANGED <<envVars, build, config, cacheVars, ls, statics>>
    /\ IF poisoned
       THEN Return(t, IF th[t].op = "get" THEN "Ok" ELSE "LockError", None)
       ELSE /\ rw' = [rw EXCEPT !.readers = @ \cup {t}]
            /\ th' = [th EXCEPT ![t].pc = IF th[t].op = "save" THEN "dir" ELSE "read"]
            /\ UNCHANGED last

\* one pass of the for loop of update_and_save_many
StepInsert(t) ==
    /\ th[t].pc = "loop"
    /\ LET path == th[t].paths[th[t].i]
       IN  entries' = Put(entries, path, update_entry(path))
    /\ th' = [th EXCEPT ![t].i = @ + 1,
                        ![t].pc = IF th[t].i = Len(th[t].paths) THEN "dir" ELSE "loop"]
    /\ UNCHANGED <<envVars, build, config, poisoned, disk, last, rw, ls, statics>>

\* get and validate_entries read the map under the read guard and return
StepRead(t) ==
    /\ th[t].pc = "read"
    /\ Return(t, "Ok",
              IF th[t].op = "get"
              THEN (IF th[t].paths[1] \in DOMAIN entries
                    THEN Some(entries[th[t].paths[1]]) ELSE None)
              ELSE valid_paths(th[t].paths))
    /\ UNCHANGED <<envVars, build, config, cacheVars, ls, statics>>

\* save_with_entries up to the temp write: create_dir_all and to_string_pretty
StepCreateDir(t) ==
    /\ th[t].pc = "dir"
    /\ UNCHANGED <<envVars, build, config, cacheVars, ls, statics>>
    /\ IF fault = "dir" THEN Return(t, "DirectoryError", None)
       ELSE IF ~Serializable(entries) THEN Return(t, "ParseError", None)
       ELSE /\ th' = [th EXCEPT ![t].pc = "write", ![t].json = Serialize(entries)]
            /\ UNCHANGED <<last, rw>>

\* fs::write(&temp_path, json) creates or truncates the temp file; when it
\* fails the temp file is removed and the call returns IoError
StepWriteBegin(t) ==
    /\ th[t].pc = "write"
    /\ UNCHANGED <<envVars, build, config, entries, poisoned, ls, statics>>
    /\ IF fault = "write"
       THEN /\ disk' = fs_remove_file(disk, temp_path(config.cache_path))
            /\ ReturnFrom(Removed(t), t, "IoError", None)
       ELSE /\ disk' = fs_write_begin(disk, temp_path(config.cache_path))
            /\ th' = [th EXCEPT ![t].pc = "writing"]
            /\ UNCHANGED <<last, rw>>

\* fs::write(&temp_path, json) writes the rest of the text, into the file
\* it has open: the temp file, or the target when another thread has
\* renamed the temp file meanwhile, or a file that has no name any more
StepWriteEnd(t) ==
    /\ th[t].pc \in {"writing", "writing_target", "writing_unlinked"}
    /\ UNCHANGED <<envVars, build, config, entries, poisoned, ls, statics>>
    /\ IF fault = "write"
       THEN /\ disk' = fs_remove_file(disk, temp_path(config.cache_path))
            /\ ReturnFrom(Removed(t), t, "IoError", None)
       ELSE /\ disk' = CASE th[t].pc = "writing" ->
                             fs_write_end(disk, temp_path(config.cache_path), th[t].json)
                        [] th[t].pc = "writing_target" ->
                             fs_write_end(disk, config.cache_path, th[t].json)
                        [] OTHER -> disk
            /\ th' = [th EXCEPT ![t].pc = "rename"]
            /\ UNCHANGED <<last, rw>>

\* fs::rename(&temp_path, &self.cache_path) and the return; the rename
\* fails when the temp file is gone, and then remove_file finds nothing
StepRename(t) ==
    /\ th[t].pc = "rename"
    /\ UNCHANGED <<envVars, build, config, entries, poisoned, ls, statics>>
    /\ IF fault = "rename"
       THEN /\ disk' = fs_remove_file(disk, temp_path(config.cache_path))
            /\ ReturnFrom(Removed(t), t, "IoError", None)
       ELSE IF tmp = Absent
       THEN /\ UNCHANGED disk
            /\ Return(t, "IoError", None)
       ELSE /\ disk' = fs_rename(disk, temp_path(config.cache_path), config.cache_path)
            /\ ReturnFrom(Renamed(t), t, "Ok", None)

\* the process dies wherever its threads are; the next process constructs
\* its Cache from the file it finds
Crash ==
    /\ \E t \in Threads : th[t].pc # "idle"
    /\ th' = [t \in Threads |-> IdleThread]
    /\ rw' = [writer |-> None, readers |-> {}]
    /\ entries' = with_config(file)
    /\ poisoned' = FALSE
    /\ last' = Returned("with_config", "Ok", None)
    /\ UNCHANGED <<envVars, build, config, disk, ls, statics>>

InitPersist ==
    /\ InitCommon
    /\ ~build.overflow_checks
    /\ fs = [p \in Paths |-> "repo"]
    /\ fault \in Faults
    /\ rw = [writer |-> None, readers |-> {}]
    /\ th = [t \in Threads |-> IdleThread]
    /\ ls = <<>>
    /\ config \in [ttl_seconds : {MaxTime - 1}, max_entries : {None}, cache_path : CachePaths]
    /\ \E text \in PersistedFiles :
         /\ disk = [f \in FileNames |-> IF f = config.cache_path THEN text ELSE Absent]
         /\ entries = with_config(text)

NextPersist ==
    \/ \E ps \in Batches : Call_update_and_save_many("t1", ps)
    \/ Call_save("t1")
    \/ \E p \in Paths : Call_get("t2", p)
    \/ \E ps \in PathLists : Call_validate_entries("t2", ps)
    \/ \E t \in Threads : StepLockWrite(t)
    \/ \E t \in Threads : StepLockRead(t)
    \/ \E t \in Threads : StepInsert(t)
    \/ \E t \in Threads : StepRead(t)
    \/ \E t \in Threads : StepCreateDir(t)
    \/ \E t \in Threads : StepWriteBegin(t)
    \/ \E t \in Threads : StepWriteEnd(t)
    \/ \E t \in Threads : StepRename(t)
    \/ Crash
    \/ FaultChange

SpecPersist == InitPersist /\ [][NextPersist]_vars

(***************************************************************************)
(* Claims checked under SpecPersist.                                       *)
(***************************************************************************)
\* C1: with a single writer, whatever step of a persist is taken and
\* wherever the process dies, the target file holds the complete document
\* persisted before or the complete new one: the file changes only by the
\* rename, to the text the persist serialized, and is never partial.
C1_TargetOldOrNew ==
    [][/\ file' # file =>
            \E t \in Threads : th[t].pc = "rename" /\ file' = th[t].json
       /\ file'.kind # "partial"]_vars

\* C1 (the divergence): a persist is between the two halves of its write
\* and the target file is partial
C1_TargetPartial ==
    /\ th["t1"].pc = "writing"
    /\ th["t2"].pc = "idle"
    /\ file.kind = "partial"

\* C1 for a cache_path whose extension is not "tmp"
C1_TargetOldOrNewUnlessTmp ==
    [][config.cache_path.ext # "tmp" =>
          /\ file' # file =>
               \E t \in Threads : th[t].pc = "rename" /\ file' = th[t].json
          /\ file'.kind # "partial"]_vars

\* the paths of the batch thread t was called with
BatchOf(t) == {th[t].paths[i] : i \in 1..Len(th[t].paths)}

\* thread t has applied a part of its batch and not all of it
MidBatch(t) ==
    /\ th[t].op = "update_and_save_many"
    /\ th[t].pc = "loop"
    /\ th[t].i > 1

WalkerConfig(stop_at_git) ==
    [max_depth |-> Some(4), max_repos |-> None, stop_at_git |-> stop_at_git]

\* the directories directly under p
Children(p) == {q \in Paths : Len(q) = Len(p) + 1 /\ StartsWith(q, p)}

\* the repositories the walker's callback finds from p at the given depth:
\* a directory with a .git entry is found, and with stop_at_git the walker
\* does not descend into it
RECURSIVE visit(_, _, _)
visit(p, depth, wc) ==
    IF fs[p] = "missing" THEN {}
    ELSE LET below == IF wc.max_depth # None /\ depth >= wc.max_depth[1] THEN {}
                      ELSE UNION {visit(q, depth + 1, wc) : q \in Children(p)}
         IN  IF fs[p] = "repo"
             THEN {p} \cup (IF wc.stop_at_git THEN {} ELSE below)
             ELSE below

\* the orders in which the parallel walker can find the set S
Orders(S) ==
    {o \in [1..Cardinality(S) -> S] : \A i, j \in 1..Cardinality(S) : o[i] = o[j] => i = j}

\* the lines println! writes for a path: the path itself with `full`, else
\* the path relative to the root, and nothing when strip_prefix fails
Render(path, root, full) ==
    IF full THEN <<path>>
    ELSE IF StartsWith(path, root) THEN <<SubSeq(path, Len(root) + 1, Len(path))>>
    ELSE <<>>

RECURSIVE RenderAll(_, _, _)
RenderAll(paths, root, full) ==
    IF paths = <<>> THEN <<>>
    ELSE Render(Head(paths), root, full) \o RenderAll(Tail(paths), root, full)

\* list_repos is called; the call before it is remembered when no directory
\* has changed since it began
Call_list_repos(root) ==
    /\ ls.pc \in {"idle", "done"}
    /\ ls' = [ls EXCEPT !.pc = "start", !.root = root, !.out = <<>>,
                        !.discovered = <<>>, !.walked = FALSE, !.saved = FALSE,
                        !.result = "none", !.quiet = TRUE,
                        !.prev = IF ls.pc = "done" /\ ls.quiet /\ ls.result = "Ok"
                                 THEN Some([root |-> ls.root, out |-> ls.out])
                                 ELSE None]
    /\ UNCHANGED <<envVars, build, config, cacheVars, last, rw, th, statics>>

\* ls.rs 57-65: CACHE.validate_and_update(), its error logged; a panic
\* inside it ends list_repos
ls_validate_and_update ==
    /\ ls.pc = "start"
    /\ validate_and_update
    /\ ls' = [ls EXCEPT !.pc = IF last'.result = "panic" THEN "panicked" ELSE "lookup",
                        !.result = IF last'.result = "panic" THEN "panic" ELSE "none"]
    /\ UNCHANGED <<rw, th, statics>>

\* ls.rs 67-78: CACHE.get(project_root).filter(validate_entry), and the
\* fast path when an entry is left
ls_lookup ==
    /\ ls.pc = "lookup"
    /\ UNCHANGED <<envVars, build, config, cacheVars, last, rw, th, statics>>
    /\ IF poisoned \/ ls.root \notin DOMAIN entries
       THEN ls' = [ls EXCEPT !.pc = "walk"]
       ELSE IF validate_entry_panics(entries[ls.root])
       THEN ls' = [ls EXCEPT !.pc = "panicked", !.result = "panic"]
       ELSE IF validate_entry(entries[ls.root], config.ttl_seconds)
       THEN ls' = [ls EXCEPT !.pc = "done", !.result = "Ok",
                             !.out = Render(entries[ls.root].path, ls.root, ls.full)]
       ELSE ls' = [ls EXCEPT !.pc = "walk"]

\* ls.rs 80-151: the walker runs to its end, every repository found is
\* collected and printed, and the collector is unwrapped
ls_walk ==
    /\ ls.pc = "walk"
    /\ \E found \in Orders(visit(ls.root, 0, ls.config)) :
         ls' = [ls EXCEPT !.pc = "flush",
                          !.walked = TRUE,
                          !.discovered = found,
                          !.out = RenderAll(found, ls.root, ls.full)]
    /\ UNCHANGED <<envVars, build, config, cacheVars, last, rw, th, statics>>

\* ls.rs 153: io::stdout().flush().map_err(RkitError::IoError)?, a failed
\* flush returns the error
ls_flush ==
    /\ ls.pc = "flush"
    /\ \E flushed \in BOOLEAN :
         ls' = [ls EXCEPT !.pc = IF flushed THEN "save" ELSE "done",
                          !.result = IF flushed THEN "none" ELSE "IoError"]
    /\ UNCHANGED <<envVars, build, config, cacheVars, last, rw, th, statics>>

ls_save_always ==
    /\ ls.pc = "save"
    /\ update_and_save_many(ls.discovered)
    /\ ls' = [ls EXCEPT !.pc = "done", !.result = "Ok", !.saved = TRUE]
    /\ UNCHANGED <<rw, th, statics>>

\* ls.rs 155-182: CACHE.update_and_save_many(&discovered_repos) when any
\* was found, its error logged, and Ok(())
ls_save ==
    /\ ls.pc = "save"
    /\ IF ls.discovered # <<>>
       THEN update_and_save_many(ls.discovered)
       ELSE UNCHANGED <<envVars, build, config, cacheVars, last>>
    /\ ls' = [ls EXCEPT !.pc = "done", !.result = "Ok", !.saved = (ls.discovered # <<>>)]
    /\ UNCHANGED <<rw, th, statics>>

\* the process ends, by returning from main or by the panic, and the next
\* one constructs CACHE from the file
ls_exit ==
    /\ ls.pc \in {"done", "panicked"}
    /\ Construct
    /\ ls' = [ls EXCEPT !.pc = IF ls.pc = "panicked" THEN "idle" ELSE "done"]
    /\ UNCHANGED <<rw, th, statics>>

\* directories and their .git entries come and go while list_repos is used
ls_FsChange ==
    /\ \E f \in FsStates \ {fs} : fs' = f
    /\ ls' = [ls EXCEPT !.quiet = FALSE]
    /\ UNCHANGED <<now, fault, build, config, cacheVars, last, rw, th, statics>>

InitLs ==
    /\ InitCommon
    /\ fault = "none"
    /\ rw = [writer |-> None, readers |-> {}]
    /\ th = <<>>
    /\ config = [ttl_seconds |-> MaxTime - 1, max_entries |-> None,
                 cache_path |-> DefaultCachePath]
    /\ \E text \in PersistedFiles :
         /\ disk = [f \in FileNames |-> IF f = DefaultCachePath THEN text ELSE Absent]
         /\ entries = with_config(text)
    /\ \E full \in BOOLEAN, stop_at_git \in BOOLEAN :
         ls = [pc |-> "idle", root |-> Root, full |-> full,
               config |-> WalkerConfig(stop_at_git), out |-> <<>>,
               discovered |-> <<>>, walked |-> FALSE, saved |-> FALSE,
               result |-> "none", quiet |-> TRUE, prev |-> None]

NextLs ==
    \/ \E root \in Paths : Call_list_repos(root)
    \/ ls_validate_and_update
    \/ ls_lookup
    \/ ls_walk
    \/ ls_flush
    \/ ls_save
    \/ ls_exit
    \/ Tick
    \/ ls_FsChange

SpecLs == InitLs /\ [][NextLs]_vars

(***************************************************************************)
(* Claims checked under SpecLs.                                            *)
(***************************************************************************)
\* the cache holds an entry under the literal root argument and the entry
\* satisfies the validity predicate now
ValidRootEntry ==
    /\ ~poisoned
    /\ ls.root \in DOMAIN entries
    /\ ValidityPredicate(entries[ls.root], config.ttl_seconds)

\* C9: when list_repos looks the root up and the cache holds a valid entry
\* under it, exactly the recorded path is output and the call returns with
\* no walk and no update_and_save_many; otherwise the walker is run.
C9_FastPathIffValidRootEntry ==
    [][ls_lookup =>
         IF ValidRootEntry
         THEN /\ ls'.pc = "done"
              /\ ls'.result = "Ok"
              /\ ls'.out = Render(entries[ls.root].path, ls.root, ls.full)
              /\ ~ls'.walked /\ ~ls'.saved
         ELSE ls'.pc = "walk"]_vars

\* C9 (the divergence): list_repos left the lookup without the fast path
\* although the cache holds a valid entry under the root
C9_ValidRootEntryMissed ==
    /\ ls.pc \in {"walk", "panicked"}
    /\ ~ls.walked
    /\ ValidRootEntry

\* C9 for the entries validate_entry can judge: those not stamped later
\* than the clock
C9_FastPathUnlessFutureStamp ==
    [][(ls_lookup /\ ~(ls.root \in DOMAIN entries /\ entries[ls.root].last_checked > now)) =>
         IF ValidRootEntry
         THEN /\ ls'.pc = "done"
              /\ ls'.result = "Ok"
              /\ ls'.out = Render(entries[ls.root].path, ls.root, ls.full)
              /\ ~ls'.walked /\ ~ls'.saved
         ELSE ls'.pc = "walk"]_vars

\* the lines of an output as a set
Lines(out) == {out[i] : i \in 1..Len(out)}

\* this call follows a call of list_repos with the same root that returned
\* Ok, and no directory has changed since that call began
SecondCall ==
    /\ ls.prev # None
    /\ ls.quiet
    /\ ls.prev[1].root = ls.root

\* C10: a second call of list_repos with the same root and no change of the
\* file system between the calls does not run the walker and outputs the
\* same result set as the first.
C10_SecondCallSameWithoutWalker ==
    SecondCall =>
        /\ ~ls.walked
        /\ (ls.pc = "done" /\ ls.result = "Ok") => Lines(ls.out) = Lines(ls.prev[1].out)

\* C10 (the divergence): the second call has run the walker and found what
\* the first call found
C10_SecondCallWalkedAgain ==
    /\ SecondCall
    /\ ls.walked
    /\ ls.pc = "done"
    /\ ls.result = "Ok"
    /\ Lines(ls.out) = Lines(ls.prev[1].out)
    /\ ls.out # <<>>

\* the lines a walk from the root prints in the present file system
WalkLines ==
    UNION {Lines(Render(p, ls.root, ls.full)) : p \in visit(ls.root, 0, ls.config)}

\* C11: the set of paths list_repos outputs does not depend on the cache:
\* when the call returns by the fast path, it has output what the walk
\* would have output.
C11_CacheNeverChangesResult ==
    [][(ls_lookup /\ ls'.pc = "done") => Lines(ls'.out) = WalkLines]_vars

\* C11 (the divergence): the fast path has output the root alone while a
\* walk finds a repository below it as well
C11_FastPathHidesNestedRepo ==
    /\ ls.pc = "done"
    /\ ~ls.walked
    /\ ls.result = "Ok"
    /\ Lines(ls.out) # WalkLines
    /\ Cardinality(WalkLines) = 2

\* C11 for a walker that stops at repositories
C11_SameResultWithStopAtGit ==
    [][(ls_lookup /\ ls'.pc = "done" /\ ls.config.stop_at_git)
          => Lines(ls'.out) = WalkLines]_vars

\* C17: a failure to flush the output does not make list_repos return an
\* Err: every call that returns returns Ok.
C17_FlushFailureIsNotAnError ==
    ls.pc = "done" => ls.result = "Ok"

\* C17 (the divergence): the walk has run, the flush has failed and
\* list_repos has returned the IoError without caching what it found
C17_FlushErrorReturned ==
    /\ ls.pc = "done"
    /\ ls.result = "IoError"
    /\ ls.walked
    /\ ls.discovered # <<>>
    /\ ~ls.saved

\* the order of the steps of list_repos (ls.rs 57-183): each position and
\* the positions that can follow it
StepOrder ==
    {<<"start", "lookup">>, <<"start", "panicked">>,
     <<"lookup", "walk">>, <<"lookup", "done">>, <<"lookup", "panicked">>,
     <<"walk", "flush">>,
     <<"flush", "save">>, <<"flush", "done">>,
     <<"save", "done">>}

\* C28: in list_repos the steps occur in the order validate_and_update, the
\* lookup of root, the walk, the flush, update_and_save_many; the cache is
\* not changed by the lookup, the walk or the flush; update_and_save_many is
\* called only in the step after the flush, so at most once and after the
\* walk, with exactly the paths the walk collected, and not at all when
\* there are none.
C28_StepsInOrderAndOneSaveAfterWalk ==
    [][/\ (ls.pc \notin {"idle", "done", "panicked"} /\ ls'.pc # ls.pc)
            => <<ls.pc, ls'.pc>> \in StepOrder
       /\ ls.pc \in {"lookup", "walk", "flush"}
            => (cacheVars' = cacheVars /\ last' = last)
       /\ (ls.pc = "start" /\ ls'.pc # "start")
            => (last'.op = "validate_and_update" /\ ~ls'.walked /\ ~ls'.saved)
       /\ (ls'.saved /\ ~ls.saved)
            => (ls.pc = "save" /\ ls.walked)
       /\ (ls.pc = "save" /\ ls'.pc # "save")
            => IF ls.discovered = <<>>
               THEN cacheVars' = cacheVars /\ last' = last /\ ~ls'.saved
               ELSE /\ ls'.saved
                    /\ last'.op = "update_and_save_many"
                    /\ ~poisoned => entries' = insert_many(entries, ls.discovered, 1)
       /\ ls.pc \in {"idle", "done", "panicked"}
            => ls'.pc \in {ls.pc, "start", "idle"}]_vars

\* C28 (witness): list_repos has returned after the walk, the flush and the
\* one update_and_save_many of the two repositories the walk collected
C28_WalkedThenSavedTwo ==
    /\ ls.pc = "done"
    /\ ls.walked
    /\ ls.saved
    /\ Len(ls.discovered) = 2
    /\ last.op = "update_and_save_many"
    /\ last.result = "Ok"
    /\ \A i \in 1..2 : ls.discovered[i] \in DOMAIN entries

(***************************************************************************)
(* SpecWalk: one run of the parallel walker of list_repos (ls.rs 80-144)   *)
(* over a fixed tree.  config.threads workers take entries from the shared *)
(* stack; for each entry a worker runs the callback, which may emit the    *)
(* entry, and then returns Continue, Skip or Quit to the walker; after     *)
(* Continue the worker pushes the entries of the directory.  A step is the *)
(* take, the callback up to its count, the push into the collector with    *)
(* the output, the rest of the callback with its return, or the listing of *)
(* the directory.                                                          *)
(***************************************************************************)
\* the walker's threads, at most
MaxWorkers == 2

\* the largest max_repos
MaxRepos == 2

\* the names the walker takes for hidden: those that start with a dot
HiddenNames == {".h"}

\* the tree under the root
WalkPaths ==
    {<<"w">>, <<"w", "a">>, <<"w", "a", "b">>, <<"w", ".h">>, <<"w", "c">>}

\* what a path of the tree can be; the listing of an "unreadable" directory
\* fails with an error
WalkKinds == {"missing", "file", "dir", "repo", "unreadable"}

\* the trees: only a directory that can be read has entries, and of the
\* entries "a" alone is anything but a directory
Trees ==
    {t \in [WalkPaths -> WalkKinds] :
        /\ t[Root] \in {"missing", "dir", "repo"}
        /\ \A p \in WalkPaths \ {Root} :
              /\ t[Parent(p)] \notin {"dir", "repo"} => t[p] = "missing"
              /\ p # <<"w", "a">> => t[p] \in {"missing", "dir", "repo"}
        /\ t[<<"w", ".h">>] # "dir"}

\* the entries of the directory p
Entries(p) == {q \in WalkPaths : Len(q) = Len(p) + 1 /\ StartsWith(q, p) /\ fs[q] # "missing"}

\* WalkBuilder's standard filters that list_repos leaves on: hidden entries
\* are not walked (git_ignore, ignore and parents are switched off)
should_skip_entry(p) == p[Len(p)] \in HiddenNames

\* entry.file_type().is_dir()
is_dir(p) == fs[p] \in {"dir", "repo", "unreadable"}

\* std::fs::read_dir(entry.path()) succeeds and lists a .git
has_git(p) == fs[p] = "repo"

\* a worker between two entries
IdleWorker == [pc |-> "idle", path |-> None, depth |-> 0, emitted |-> FALSE]

Workers == 1..ls.config.threads

\* every worker has stopped: walker.run returns
WalkDone == \A w \in Workers : ls.workers[w].pc = "stopped"

\* a worker that takes an entry whatever the callbacks have returned
walk_pop_after_quit(w) ==
    /\ ls.workers[w].pc = "idle"
    /\ \E item \in ls.stack :
         ls' = [ls EXCEPT !.stack = @ \ {item},
                          !.workers[w] = [pc |-> "callback", path |-> Some(item.path),
                                          depth |-> item.depth, emitted |-> FALSE]]
    /\ UNCHANGED <<envVars, build, config, cacheVars, last, rw, th, statics>>

\* a worker takes an entry from the stack, unless a callback has returned
\* Quit
walk_pop(w) ==
    /\ ls.workers[w].pc = "idle"
    /\ ~ls.quit
    /\ \E item \in ls.stack :
         ls' = [ls EXCEPT !.stack = @ \ {item},
                          !.workers[w] = [pc |-> "callback", path |-> Some(item.path),
                                          depth |-> item.depth, emitted |-> FALSE]]
    /\ UNCHANGED <<envVars, build, config, cacheVars, last, rw, th, statics>>

\* a worker stops: after a Quit, or when the stack is empty and no worker
\* is at an entry
walk_stop(w) ==
    /\ ls.workers[w].pc = "idle"
    /\ \/ ls.quit
       \/ /\ ls.stack = {}
          /\ \A v \in Workers : ls.workers[v].pc \in {"idle", "stopped"}
    /\ ls' = [ls EXCEPT !.workers[w].pc = "stopped"]
    /\ UNCHANGED <<envVars, build, config, cacheVars, last, rw, th, statics>>

\* ls.rs 98-111: the callback up to repo_count.fetch_add.  An entry that
\* is a directory whose listing has a .git is counted
walk_callback(w) ==
    /\ ls.workers[w].pc = "callback"
    /\ LET p == ls.workers[w].path[1]
       IN  IF fs[p] = "missing"
           THEN ls' = [ls EXCEPT !.workers[w].pc = "return",
                                 !.visited = @ \cup {p},
                                 !.errors = @ \cup {p}]
           ELSE IF is_dir(p) /\ has_git(p)
           THEN ls' = [ls EXCEPT !.workers[w].pc = "push",
                                 !.visited = @ \cup {p},
                                 !.repo_count = @ + 1]
           ELSE ls' = [ls EXCEPT !.workers[w].pc = "return",
                                 !.visited = @ \cup {p}]
    /\ UNCHANGED <<envVars, build, config, cacheVars, last, rw, th, statics>>

\* the push that collects the path twice
walk_push_twice(w) ==
    /\ ls.workers[w].pc = "push"
    /\ ls' = [ls EXCEPT !.workers[w].pc = "return",
                        !.workers[w].emitted = TRUE,
                        !.discovered = Append(Append(@, ls.workers[w].path[1]),
                                              ls.workers[w].path[1])]
    /\ UNCHANGED <<envVars, build, config, cacheVars, last, rw, th, statics>>

\* ls.rs 112-121: discovered_repos.lock().unwrap().push(path) under the
\* mutex, and the println! of the path
walk_push(w) ==
    /\ ls.workers[w].pc = "push"
    /\ ls' = [ls EXCEPT !.workers[w].pc = "return",
                        !.workers[w].emitted = TRUE,
                        !.discovered = Append(@, ls.workers[w].path[1])]
    /\ UNCHANGED <<envVars, build, config, cacheVars, last, rw, th, statics>>

\* the callback's return without the Skip of stop_at_git
walk_return_never_skips(w) ==
    /\ ls.workers[w].pc = "return"
    /\ IF /\ ls.workers[w].emitted
          /\ ls.config.max_repos # None
          /\ ls.repo_count >= ls.config.max_repos[1]
       THEN ls' = [ls EXCEPT !.workers[w] = IdleWorker, !.quit = TRUE]
       ELSE IF fs[ls.workers[w].path[1]] = "missing"
       THEN ls' = [ls EXCEPT !.workers[w] = IdleWorker]
       ELSE ls' = [ls EXCEPT !.workers[w].pc = "descend"]
    /\ UNCHANGED <<envVars, build, config, cacheVars, last, rw, th, statics>>

\* ls.rs 123-143: the rest of the callback.  After a match: Quit when the
\* counter has reached max_repos, else Skip with stop_at_git; in every other
\* case, an Err entry included, Continue.  The walker stops all workers
\* after a Quit and does not list the directory after a Skip
walk_return(w) ==
    /\ ls.workers[w].pc = "return"
    /\ IF /\ ls.workers[w].emitted
          /\ ls.config.max_repos # None
          /\ ls.repo_count >= ls.config.max_repos[1]
       THEN ls' = [ls EXCEPT !.workers[w] = IdleWorker, !.quit = TRUE]
       ELSE IF ls.workers[w].emitted /\ ls.config.stop_at_git
       THEN ls' = [ls EXCEPT !.workers[w] = IdleWorker]
       ELSE IF fs[ls.workers[w].path[1]] = "missing"
       THEN ls' = [ls EXCEPT !.workers[w] = IdleWorker]
       ELSE ls' = [ls EXCEPT !.workers[w].pc = "descend"]
    /\ UNCHANGED <<envVars, build, config, cacheVars, last, rw, th, statics>>

\* the walker after a listing error that ends the walk
walk_descend_error_quits(w) ==
    /\ ls.workers[w].pc = "descend"
    /\ LET p == ls.workers[w].path[1]
           depth == ls.workers[w].depth
       IN  IF ~is_dir(p)
           THEN ls' = [ls EXCEPT !.workers[w] = IdleWorker]
           ELSE IF fs[p] = "unreadable"
           THEN ls' = [ls EXCEPT !.workers[w] = IdleWorker, !.errors = @ \cup {p},
                                 !.quit = TRUE]
           ELSE IF ls.config.max_depth # None /\ depth >= ls.config.max_depth[1]
           THEN ls' = [ls EXCEPT !.workers[w] = IdleWorker]
           ELSE ls' = [ls EXCEPT !.workers[w] = IdleWorker,
                                 !.stack = @ \cup {[path |-> q, depth |-> depth + 1] :
                                                     q \in {e \in Entries(p) : ~should_skip_entry(e)}}]
    /\ UNCHANGED <<envVars, build, config, cacheVars, last, rw, th, statics>>

\* the walker after Continue: an entry that is no directory has nothing
\* below it; a listing that fails is given to the callback as an Err entry,
\* which logs it and returns Continue (ls.rs 141); at max_depth the walker
\* goes no deeper; else the entries that pass the filters go on the stack
walk_descend(w) ==
    /\ ls.workers[w].pc = "descend"
    /\ LET p == ls.workers[w].path[1]
           depth == ls.workers[w].depth
       IN  IF ~is_dir(p)
           THEN ls' = [ls EXCEPT !.workers[w] = IdleWorker]
           ELSE IF fs[p] = "unreadable"
           THEN ls' = [ls EXCEPT !.workers[w] = IdleWorker, !.errors = @ \cup {p}]
           ELSE IF ls.config.max_depth # None /\ depth >= ls.config.max_depth[1]
           THEN ls' = [ls EXCEPT !.workers[w] = IdleWorker]
           ELSE ls' = [ls EXCEPT !.workers[w] = IdleWorker,
                                 !.stack = @ \cup {[path |-> q, depth |-> depth + 1] :
                                                     q \in {e \in Entries(p) : ~should_skip_entry(e)}}]
    /\ UNCHANGED <<envVars, build, config, cacheVars, last, rw, th, statics>>

\* the WalkerConfigs of the model
WalkerConfigs ==
    [max_depth : {Some(1), Some(4)},
     max_repos : {None} \cup {Some(m) : m \in 0..MaxRepos},
     stop_at_git : BOOLEAN,
     threads : 1..MaxWorkers]

InitWalk ==
    /\ now = 0
    /\ fault = "none"
    /\ build = [overflow_checks |-> FALSE]
    /\ config = [ttl_seconds |-> MaxTime - 1, max_entries |-> None,
                 cache_path |-> DefaultCachePath]
    /\ entries = EmptyEntries
    /\ poisoned = FALSE
    /\ disk = [f \in FileNames |-> Absent]
    /\ last = Returned("with_config", "Ok", None)
    /\ rw = [writer |-> None, readers |-> {}]
    /\ th = <<>>
    /\ statics = OneCache
    /\ fs \in Trees
    /\ \E wc \in WalkerConfigs :
         ls = [root |-> Root, config |-> wc,
               stack |-> {[path |-> Root, depth |-> 0]},
               workers |-> [w \in 1..wc.threads |-> IdleWorker],
               repo_count |-> 0, discovered |-> <<>>, quit |-> FALSE,
               visited |-> {}, errors |-> {}]

NextWalk ==
    \/ \E w \in Workers : walk_pop(w)
    \/ \E w \in Workers : walk_callback(w)
    \/ \E w \in Workers : walk_push(w)
    \/ \E w \in Workers : walk_return(w)
    \/ \E w \in Workers : walk_descend(w)
    \/ \E w \in Workers : walk_stop(w)

SpecWalk == InitWalk /\ [][NextWalk]_vars

(***************************************************************************)
(* Claims checked under SpecWalk.                                          *)
(***************************************************************************)
\* p is a strict subdirectory of q
StrictlyBelow(p, q) == Len(p) > Len(q) /\ StartsWith(p, q)

\* how many times the walk has emitted p
Emitted(p) == Cardinality({i \in 1..Len(ls.discovered) : ls.discovered[i] = p})

\* the entries a walk with no max_repos gives to the callback, from p down
RECURSIVE walk_reach(_, _)
walk_reach(p, depth) ==
    {p} \cup
    IF \/ fs[p] \notin {"dir", "repo"}
       \/ fs[p] = "repo" /\ ls.config.stop_at_git
       \/ ls.config.max_depth # None /\ depth >= ls.config.max_depth[1]
    THEN {}
    ELSE UNION {walk_reach(q, depth + 1) : q \in {e \in Entries(p) : ~should_skip_entry(e)}}

\* the repositories the walk can reach
ReachableRepos == {p \in walk_reach(Root, 0) : fs[p] = "repo"}

\* C12: with stop_at_git, whatever the tree and the interleaving of the
\* workers, no emitted path is a strict subdirectory of another emitted path.
C12_NoNestedMatch ==
    ls.config.stop_at_git =>
        \A i, j \in 1..Len(ls.discovered) :
            ~StrictlyBelow(ls.discovered[i], ls.discovered[j])

\* C12 (witness): two workers have walked a tree with the repositories
\* a and a/b to its end and emitted a
C12_OuterRepoEmitted ==
    /\ WalkDone
    /\ ls.config.stop_at_git
    /\ ls.config.threads = 2
    /\ ls.config.max_depth = Some(4)
    /\ fs[<<"w", "a">>] = "repo"
    /\ fs[<<"w", "a", "b">>] = "repo"
    /\ Emitted(<<"w", "a">>) = 1

\* the directories C13 is about: at depth <= max_depth under the root, with
\* a .git entry, and with no ancestor at or below the root that has one
OutermostRepos ==
    {p \in WalkPaths :
        /\ fs[p] = "repo"
        /\ ls.config.max_depth # None => Len(p) - Len(Root) <= ls.config.max_depth[1]
        /\ \A q \in WalkPaths : StrictlyBelow(p, q) => fs[q] # "repo"}

\* C13: with max_repos unset and stop_at_git, a completed walk has emitted
\* every outermost repository within max_depth exactly once.
C13_EveryOutermostRepoOnce ==
    (WalkDone /\ ls.config.max_repos = None /\ ls.config.stop_at_git) =>
        \A p \in OutermostRepos : Emitted(p) = 1

\* C13 (the divergence): the walk is complete and has not emitted the
\* repository in the hidden directory
C13_HiddenRepoNotEmitted ==
    /\ WalkDone
    /\ ls.config.max_repos = None
    /\ ls.config.stop_at_git
    /\ <<"w", ".h">> \in OutermostRepos
    /\ Emitted(<<"w", ".h">>) = 0
    /\ Emitted(<<"w", "c">>) = 1

\* C13 for the directories no component of which is hidden
C13_EveryVisibleOutermostRepoOnce ==
    (WalkDone /\ ls.config.max_repos = None /\ ls.config.stop_at_git) =>
        \A p \in OutermostRepos :
            (\A i \in (Len(Root) + 1)..Len(p) : p[i] \notin HiddenNames) => Emitted(p) = 1

Min(a, b) == IF a <= b THEN a ELSE b

\* C14: with max_repos = M, W workers and R reachable repositories, a walk
\* never emits more than M + (W - 1) matches, and a completed walk has
\* emitted at least min(M, R).
C14_SoftBound ==
    ls.config.max_repos # None =>
        /\ Len(ls.discovered) <= ls.config.max_repos[1] + (ls.config.threads - 1)
        /\ WalkDone => Len(ls.discovered) >= Min(ls.config.max_repos[1],
                                                  Cardinality(ReachableRepos))

\* C14 (the divergence): max_repos = 0 and one worker, and a match has been
\* emitted
C14_EmittedWithZeroCap ==
    /\ ls.config.max_repos = Some(0)
    /\ ls.config.threads = 1
    /\ WalkDone
    /\ Len(ls.discovered) = 1

\* C14 for max_repos >= 1
C14_SoftBoundFromOne ==
    (ls.config.max_repos # None /\ ls.config.max_repos # Some(0)) =>
        /\ Len(ls.discovered) <= ls.config.max_repos[1] + (ls.config.threads - 1)
        /\ WalkDone => Len(ls.discovered) >= Min(ls.config.max_repos[1],
                                                  Cardinality(ReachableRepos))

\* the step gives an entry with an error to the callback
ErrorStep(w) ==
    \/ walk_callback(w) /\ fs[ls.workers[w].path[1]] = "missing"
    \/ walk_descend(w) /\ fs[ls.workers[w].path[1]] = "unreadable"

\* C15: an entry with an error does not end the walk and is not emitted:
\* the step that meets it leaves the quit flag and the matches as they
\* were, and a walk that no max_repos has ended has visited every entry it
\* can reach.
C15_ErrorsNeverEndTheWalk ==
    /\ [][\A w \in Workers :
            ErrorStep(w) => (ls'.quit = ls.quit /\ ls'.discovered = ls.discovered)]_vars
    /\ []((WalkDone /\ ~ls.quit) => ls.visited = walk_reach(Root, 0))

\* C15 (witness): the listing of a has failed, and the walk has gone on to
\* its end and emitted c
C15_WalkedPastError ==
    /\ WalkDone
    /\ fs[<<"w", "a">>] = "unreadable"
    /\ <<"w", "a">> \in ls.errors
    /\ ls.visited = walk_reach(Root, 0)
    /\ Emitted(<<"w", "c">>) = 1

\* the threads of the walker are scheduled: while a worker can take a step,
\* a step is taken
SpecWalkFair == SpecWalk /\ WF_vars(NextWalk)

\* the worker is at an entry it has not yet emitted or passed over
MayStillEmit(w) == ls.workers[w].pc \in {"callback", "push"}

\* the step in which worker w emits the entry it is at
Emits(w) ==
    /\ ls.workers[w].path # None
    /\ ls'.discovered = Append(ls.discovered, ls.workers[w].path[1])
    /\ ls'.workers[w].emitted /\ ~ls.workers[w].emitted

\* C29: the walk of a finite tree without links always terminates; once a
\* callback has returned Quit the flag stays, no worker starts a new entry,
\* and the matches grow only by the entry a worker was already at, one per
\* such worker: a worker that emits is no longer at an entry it may emit,
\* and a worker that is not at one does not come to be.
C29_TerminatesAndQuitStopsNewEntries ==
    /\ <>WalkDone
    /\ [][ls.quit =>
            /\ ls'.quit
            /\ \A w \in Workers :
                  /\ ls'.workers[w].pc = "callback" => ls.workers[w].pc = "callback"
                  /\ ls'.workers[w].path \in {ls.workers[w].path, None}
                  /\ ~MayStillEmit(w) => ~MayStillEmit(w)'
                  /\ Emits(w) => (MayStillEmit(w) /\ ~MayStillEmit(w)')
            /\ ls'.discovered # ls.discovered => \E w \in Workers : Emits(w)]_vars

\* C29 (witness): a callback has returned Quit and its worker has stopped
\* while the other worker is at a repository it has counted and not yet
\* emitted, beyond max_repos
C29_QuitWhileOtherWorkerAtMatch ==
    /\ ls.quit
    /\ ls.config.threads = 2
    /\ ls.config.max_repos = Some(1)
    /\ Len(ls.discovered) = 1
    /\ \E w \in Workers : ls.workers[w].pc = "push"
    /\ \E w \in Workers : ls.workers[w].pc = "stopped"

\* C30: no match is lost or duplicated in the collector: during the walk
\* the counter is never smaller than the number of collected paths; when
\* the walk has finished the two are equal, every visited directory with a
\* .git is in the collector exactly once, and nothing else is in it.
C30_CollectorAgreesWithCounter ==
    /\ ls.repo_count >= Len(ls.discovered)
    /\ WalkDone =>
         /\ ls.repo_count = Len(ls.discovered)
         /\ \A p \in WalkPaths :
               Emitted(p) = IF p \in ls.visited /\ fs[p] = "repo" THEN 1 ELSE 0

\* C30 (witness): two workers have walked the tree to its end, counted
\* three repositories and collected each of them once, c before a
C30_ThreeCollectedByTwoWorkers ==
    /\ WalkDone
    /\ ls.config.threads = 2
    /\ ls.repo_count = 3
    /\ Len(ls.discovered) = 3
    /\ \E i, j \in 1..3 : /\ i < j
                           /\ ls.discovered[i] = <<"w", "c">>
                           /\ ls.discovered[j] = <<"w", "a">>

(***************************************************************************)
(* SpecLsFaults: list_repos while the cache layer fails: the file system   *)
(* refuses steps of the persist, and another thread of the process calls   *)
(* validate_and_update, which can panic and leave the lock poisoned.       *)
(***************************************************************************)
InitLsFaults ==
    /\ InitCommon
    /\ fault \in Faults
    /\ rw = [writer |-> None, readers |-> {}]
    /\ th = <<>>
    /\ config = [ttl_seconds |-> MaxTime - 1, max_entries |-> None,
                 cache_path |-> DefaultCachePath]
    /\ \E text \in PersistedFiles :
         /\ disk = [f \in FileNames |-> IF f = DefaultCachePath THEN text ELSE Absent]
         /\ entries = with_config(text)
    /\ ls = [pc |-> "idle", root |-> Root, full |-> TRUE,
             config |-> WalkerConfig(TRUE), out |-> <<>>,
             discovered |-> <<>>, walked |-> FALSE, saved |-> FALSE,
             result |-> "none", quiet |-> TRUE, prev |-> None]

NextLsFaults ==
    \/ \E root \in Paths : Call_list_repos(root)
    \/ ls_validate_and_update
    \/ ls_lookup
    \/ ls_walk
    \/ ls_flush
    \/ ls_save
    \/ ls_exit
    \/ validate_and_update /\ UNCHANGED stepVars
    \/ Tick
    \/ FaultChange

SpecLsFaults == InitLsFaults /\ [][NextLsFaults]_vars

\* C16: a failure of the cache layer inside list_repos is only logged:
\* whatever validate_and_update does, list_repos goes on to the lookup; the
\* lookup ends in the fast path or the walk, and in the walk when the lock is
\* poisoned; and whatever update_and_save_many does after the walk,
\* list_repos returns Ok with the output of the walk.
C16_CacheFailuresOnlyLogged ==
    [][/\ ls_validate_and_update => ls'.pc = "lookup"
       /\ ls_lookup => ls'.pc \in {"walk", "done"}
       /\ (ls_lookup /\ poisoned) => ls'.pc = "walk"
       /\ ls_save => (ls'.pc = "done" /\ ls'.result = "Ok" /\ ls'.out = ls.out)]_vars

\* C16 (the divergence): list_repos has ended by a panic of the cache layer,
\* with no walk
C16_CachePanicEndedListRepos ==
    /\ ls.pc = "panicked"
    /\ ls.result = "panic"
    /\ ~ls.walked
    /\ ls.out = <<>>

\* C16 for the failures the cache layer returns as errors: every step of
\* list_repos in which validate_entry does not panic
C16_ReturnedErrorsOnlyLogged ==
    [][(\A k \in DOMAIN entries : ~validate_entry_panics(entries[k])) =>
         /\ ls_validate_and_update => ls'.pc = "lookup"
         /\ ls_lookup => ls'.pc \in {"walk", "done"}
         /\ (ls_lookup /\ poisoned) => ls'.pc = "walk"
         /\ ls_save => (ls'.pc = "done" /\ ls'.result = "Ok" /\ ls'.out = ls.out)]_vars

(***************************************************************************)
(* Claims about a persist that fails, checked under SpecStore.             *)
(***************************************************************************)
\* the file system refuses the temp-file write or the rename
PersistFails == fault \in {"write", "rename"}

\* what C18 says of a mutating call whose persist has failed: the error is
\* returned, no temp file is left, the target is as before, and the entries
\* in memory are the attempted ones
FailedPersist(attempted) ==
    /\ last'.result = "IoError"
    /\ tmp' = Absent
    /\ file' = file
    /\ entries' = attempted

\* C18: when the temp-file write or the rename of a persist fails, the temp
\* file does not exist afterwards, the error is returned to the caller, the
\* target file is unchanged and the entries in memory hold the attempted
\* insert, batch insert or prune.
C18_FailedPersistKeepsTargetAndMutation ==
    [][(PersistFails /\ ~poisoned) =>
         /\ \A p \in Paths, e \in EntryInputs :
               (validate_entry(e, config.ttl_seconds) /\ ~is_full(entries) /\ insert(p, e))
                  => FailedPersist(Put(entries, p, e))
         /\ \A ps \in Batches :
               update_and_save_many(ps) => FailedPersist(insert_many(entries, ps, 1))
         /\ validate_and_update => FailedPersist(Restrict(entries, retained(entries)))]_vars

\* C18 (the divergence): a failed persist has removed the cache file all
\* the entries in memory came from
C18_FailedPersistRemovedTarget ==
    /\ config.cache_path.ext = "tmp"
    /\ last.op \in {"insert", "update_and_save_many", "validate_and_update"}
    /\ last.result = "IoError"
    /\ file = Absent
    /\ entries # EmptyEntries

\* C18 for a cache_path whose extension is not "tmp"
C18_FailedPersistUnlessTmp ==
    [][(PersistFails /\ ~poisoned /\ config.cache_path.ext # "tmp") =>
         /\ \A p \in Paths, e \in EntryInputs :
               (validate_entry(e, config.ttl_seconds) /\ ~is_full(entries) /\ insert(p, e))
                  => FailedPersist(Put(entries, p, e))
         /\ \A ps \in Batches :
               update_and_save_many(ps) => FailedPersist(insert_many(entries, ps, 1))
         /\ validate_and_update => FailedPersist(Restrict(entries, retained(entries)))]_vars

\* a file name as the sequence of its dot-separated parts
NameParts(f) == <<f.stem, f.ext>>

\* C36: for every configured cache_path the temp file of a persist is
\* named <cache_path>.tmp and is never the same path as the target, so the
\* target is only ever modified by the rename: it changes only in a
\* persist that returns Ok, to the text that persist serialized.
C36_TempIsCachePathDotTmp ==
    /\ [](/\ NameParts(temp_path(config.cache_path)) = NameParts(config.cache_path) \o <<"tmp">>
          /\ temp_path(config.cache_path) # config.cache_path)
    /\ [][file' # file => (last'.result = "Ok" /\ file' = Serialize(entries'))]_vars

\* C36 (the divergence): the cache_path has the extension tmp, the temp
\* path is the cache_path itself, and a save whose write failed has removed
\* the cache file
C36_TempIsTheTarget ==
    /\ config.cache_path.ext = "tmp"
    /\ temp_path(config.cache_path) = config.cache_path
    /\ last = Returned("save", "IoError", None)
    /\ file = Absent
    /\ entries # EmptyEntries

\* C36 for a cache_path whose extension is not "tmp": the temp file has
\* the name of the cache_path with the extension replaced by tmp, it is
\* another path than the target, and the target changes only in a persist
\* that returns Ok, to the text that persist serialized
C36_TempReplacesExtension ==
    /\ [](config.cache_path.ext # "tmp" =>
            /\ NameParts(temp_path(config.cache_path)) = <<config.cache_path.stem, "tmp">>
            /\ temp_path(config.cache_path) # config.cache_path)
    /\ [][(config.cache_path.ext # "tmp" /\ file' # file) =>
            (last'.result = "Ok" /\ file' = Serialize(entries'))]_vars

(***************************************************************************)
(* SpecLock: two threads call the operations of one Cache, the mutating    *)
(* ones included, each call a sequence of steps: the validation ahead of   *)
(* the lock, the lock, the capacity check and the insert or the retain,    *)
(* and the steps of the persist.  The file system may refuse the writes.    *)
(***************************************************************************)
\* Cache::insert up to the lock: validate_entry, then self.entries.write()
Call_insert_as(t, op, path, entry) ==
    /\ th[t].pc = "idle"
    /\ UNCHANGED <<envVars, build, config, cacheVars, rw, ls, statics>>
    /\ IF validate_entry_panics(entry)
       THEN /\ last' = Returned(op, "panic", None)
            /\ UNCHANGED th
       ELSE IF ~validate_entry(entry, config.ttl_seconds)
       THEN /\ last' = Returned(op, "InvalidEntryError", None)
            /\ UNCHANGED th
       ELSE /\ th' = [th EXCEPT ![t] = [pc |-> "lock", op |-> op, paths |-> <<path>>,
                                        entry |-> Some(entry), i |-> 1, json |-> Absent]]
            /\ UNCHANGED last

Call_insert(t, path, entry) == Call_insert_as(t, "insert", path, entry)

\* Cache::update_and_save: update_entry, then insert
Call_update_and_save(t, path) ==
    Call_insert_as(t, "update_and_save", path, update_entry(path))

Call_validate_and_update(t) == Call(t, "validate_and_update", <<>>)

\* insert that persists through self.save(), which takes the read guard
StepCheckFull_saves_through_save(t) ==
    /\ th[t].pc = "check"
    /\ UNCHANGED <<envVars, build, config, poisoned, disk, ls, statics>>
    /\ IF is_full(entries)
       THEN /\ Return(t, "CacheFull", None)
            /\ UNCHANGED entries
       ELSE /\ entries' = Put(entries, th[t].paths[1], th[t].entry[1])
            /\ th' = [th EXCEPT ![t].pc = "lock", ![t].op = "save"]
            /\ UNCHANGED <<last, rw>>

\* Cache::insert under the write guard: the capacity check, entries.insert,
\* then save_with_entries with the guard it holds
StepCheckFull(t) ==
    /\ th[t].pc = "check"
    /\ UNCHANGED <<envVars, build, config, poisoned, disk, ls, statics>>
    /\ IF is_full(entries)
       THEN /\ Return(t, "CacheFull", None)
            /\ UNCHANGED entries
       ELSE /\ entries' = Put(entries, th[t].paths[1], th[t].entry[1])
            /\ th' = [th EXCEPT ![t].pc = "dir"]
            /\ UNCHANGED <<last, rw>>

\* Cache::validate_and_update under the write guard: entries.retain.  A
\* panic of validate_entry unwinds through the guard, which poisons the lock
\* and releases it
StepRetain(t) ==
    /\ th[t].pc = "retain"
    /\ UNCHANGED <<envVars, build, config, disk, ls, statics>>
    /\ IF \E k \in DOMAIN entries : validate_entry_panics(entries[k])
       THEN /\ \E dropped \in SUBSET ((DOMAIN entries) \ retained(entries)) :
                 /\ \A k \in dropped : ~validate_entry_panics(entries[k])
                 /\ entries' = Restrict(entries, (DOMAIN entries) \ dropped)
            /\ poisoned' = TRUE
            /\ Return(t, "panic", None)
       ELSE /\ entries' = Restrict(entries, retained(entries))
            /\ th' = [th EXCEPT ![t].pc = "dir"]
            /\ UNCHANGED <<poisoned, last, rw>>

\* a step of thread t inside a call
Step(t) ==
    \/ StepLockWrite(t)
    \/ StepLockRead(t)
    \/ StepCheckFull(t)
    \/ StepRetain(t)
    \/ StepInsert(t)
    \/ StepRead(t)
    \/ StepCreateDir(t)
    \/ StepWriteBegin(t)
    \/ StepWriteEnd(t)
    \/ StepRename(t)

InitLock ==
    /\ InitCommon
    /\ fs = [p \in Paths |-> "repo"]
    /\ fault \in Faults
    /\ rw = [writer |-> None, readers |-> {}]
    /\ th = [t \in Threads |-> IdleThread]
    /\ ls = <<>>
    /\ config \in [ttl_seconds : {MaxTime - 1},
                   max_entries : {None, Some(MaxEntries)},
                   cache_path : {DefaultCachePath}]
    /\ \E text \in PersistedFiles :
         /\ disk = [f \in FileNames |-> IF f = config.cache_path THEN text ELSE Absent]
         /\ entries = with_config(text)

NextLock ==
    \/ \E e \in EntryInputs : Call_insert("t1", e.path, e)
    \/ \E ps \in Batches : Call_update_and_save_many("t1", ps)
    \/ Call_save("t1")
    \/ \E p \in Paths : Call_update_and_save("t2", p)
    \/ Call_validate_and_update("t2")
    \/ \E p \in Paths : Call_get("t2", p)
    \/ \E t \in Threads : StepLockWrite(t)
    \/ \E t \in Threads : StepLockRead(t)
    \/ \E t \in Threads : StepCheckFull(t)
    \/ \E t \in Threads : StepRetain(t)
    \/ \E t \in Threads : StepInsert(t)
    \/ \E t \in Threads : StepRead(t)
    \/ \E t \in Threads : StepCreateDir(t)
    \/ \E t \in Threads : StepWriteBegin(t)
    \/ \E t \in Threads : StepWriteEnd(t)
    \/ \E t \in Threads : StepRename(t)

SpecLock == InitLock /\ [][NextLock]_vars

(***************************************************************************)
(* Claims checked under SpecLock.                                          *)
(***************************************************************************)
MutatingOps == {"insert", "update_and_save", "update_and_save_many", "validate_and_update"}

\* thread t holds the write guard
HoldsWrite(t) == rw.writer = Some(t)

\* C19: every mutating operation acquires the write lock exactly once, holds
\* it across lookup, mutation and persist, and never acquires the lock while
\* holding it; so no interleaving of threads calling cache operations
\* deadlocks.  A thread asks for the lock only when it holds no guard and only
\* as the first step of its call; a mutating call past the lock holds the
\* write guard until it returns; the entries and the files change only by
\* the thread that holds the write guard (or, for save, a read guard); and
\* whenever some call is unfinished, some thread can take a step.
C19_WriteLockOnceNoDeadlock ==
    /\ [](\A t \in Threads :
            /\ th[t].pc = "lock" => ~HoldsWrite(t) /\ t \notin rw.readers
            /\ (th[t].op \in MutatingOps /\ th[t].pc \notin {"idle", "lock"}) => HoldsWrite(t)
            /\ th[t].pc = "idle" => ~HoldsWrite(t) /\ t \notin rw.readers)
    /\ [](rw.writer # None => rw.readers = {})
    /\ []((\E t \in Threads : th[t].pc # "idle") => \E t \in Threads : ENABLED Step(t))
    /\ [][\A t \in Threads :
            /\ th'[t].pc = "lock" => th[t].pc \in {"idle", "lock"}
            /\ (HoldsWrite(t) /\ rw'.writer # Some(t)) => th'[t].pc = "idle"
            /\ (th'[t].op \in MutatingOps /\ th[t] # th'[t] /\ (entries' # entries \/ disk' # disk))
                  => HoldsWrite(t) /\ (th'[t].pc = "idle" \/ rw'.writer = Some(t))]_vars

\* C19 (witness): a thread waits for the write lock while the other one,
\* holding it, is in the middle of its persist
C19_WriterWaitsForWriter ==
    /\ th["t1"].op = "insert" /\ th["t1"].pc = "rename" /\ HoldsWrite("t1")
    /\ th["t2"].op = "validate_and_update" /\ th["t2"].pc = "lock"

(***************************************************************************)
(* SpecProcess: one process that calls clone and list_repos, one after the *)
(* other in any order.  clone goes to the CACHE of lib.rs, list_repos to   *)
(* the CACHE of ls.rs; each is built from the cache file at its first use. *)
(* `entries` is the map of ls.rs CACHE, statics.lib_CACHE that of lib.rs.  *)
(***************************************************************************)
\* *CACHE in clone.rs: the LazyLock of lib.rs runs Cache::new at its first use
lib_CACHE == IF statics.lib_CACHE = None THEN with_config(file) ELSE statics.lib_CACHE[1]

\* the directories after git clone has made target_dir, its parents included
git_clone(target_dir) ==
    [p \in Paths |-> IF p = target_dir THEN "repo"
                     ELSE IF StartsWith(target_dir, p) /\ fs[p] = "missing" THEN "dir"
                     ELSE fs[p]]

\* commands::clone up to the cache: git clone makes target_dir or fails
clone(target_dir) ==
    /\ ls.pc \in {"idle", "done"}
    /\ ~exists(target_dir)
    /\ UNCHANGED <<now, fault, build, config, cacheVars, rw, th, statics>>
    /\ \E cloned \in BOOLEAN :
         IF cloned
         THEN /\ fs' = git_clone(target_dir)
              /\ last' = Returned("git clone", "Ok", Some(target_dir))
              /\ ls' = [ls EXCEPT !.pc = "clone"]
         ELSE /\ last' = Returned("clone", "GitError", None)
              /\ UNCHANGED <<fs, ls>>

\* clone.rs 152-158: CACHE.update_and_save(&target_dir) on the CACHE of
\* lib.rs, its error only logged, and Ok(())
clone_update_and_save ==
    /\ ls.pc = "clone"
    /\ LET target_dir == last.value[1]
           entry == update_entry(target_dir)
           saved == save_with_entries(Put(lib_CACHE, target_dir, entry), disk)
       IN  IF ~validate_entry_panics(entry) /\ validate_entry(entry, config.ttl_seconds)
           THEN /\ statics' = [statics EXCEPT
                                 !.lib_CACHE = Some(Put(lib_CACHE, target_dir, entry))]
                /\ disk' = saved.disk
           ELSE /\ statics' = [statics EXCEPT !.lib_CACHE = Some(lib_CACHE)]
                /\ UNCHANGED disk
    /\ last' = Returned("clone", "Ok", None)
    /\ ls' = [ls EXCEPT !.pc = "idle"]
    /\ UNCHANGED <<envVars, build, config, entries, poisoned, rw, th>>

\* a repository is removed, as by rm -r
remove(target_dir) ==
    /\ ls.pc \in {"idle", "done"}
    /\ exists(target_dir)
    /\ fs' = [p \in Paths |-> IF StartsWith(p, target_dir) THEN "missing" ELSE fs[p]]
    /\ UNCHANGED <<now, fault, build, config, cacheVars, last, stepVars>>

\* *CACHE in ls.rs: lazy_static runs Cache::new at the first use, which is
\* the CACHE.validate_and_update() that list_repos begins with
ls_CACHE ==
    /\ ls.pc = "start"
    /\ ~statics.ls_CACHE
    /\ entries' = with_config(file)
    /\ statics' = [statics EXCEPT !.ls_CACHE = TRUE]
    /\ UNCHANGED <<envVars, build, config, poisoned, disk, last, rw, th, ls>>

InitProcess ==
    /\ now \in Times
    /\ fs \in FsStates
    /\ fault = "none"
    /\ build \in [overflow_checks : BOOLEAN]
    /\ poisoned = FALSE
    /\ last = Returned("with_config", "Ok", None)
    /\ statics = [lib_CACHE |-> None, ls_CACHE |-> FALSE]
    /\ entries = EmptyEntries
    /\ rw = [writer |-> None, readers |-> {}]
    /\ th = <<>>
    /\ config = [ttl_seconds |-> MaxTime - 1, max_entries |-> None,
                 cache_path |-> DefaultCachePath]
    /\ \E text \in PersistedFiles :
         disk = [f \in FileNames |-> IF f = DefaultCachePath THEN text ELSE Absent]
    /\ \E full \in BOOLEAN :
         ls = [pc |-> "idle", root |-> Root, full |-> full,
               config |-> WalkerConfig(TRUE), out |-> <<>>,
               discovered |-> <<>>, walked |-> FALSE, saved |-> FALSE,
               result |-> "none", quiet |-> TRUE, prev |-> None]

NextProcess ==
    \/ \E target_dir \in Paths : clone(target_dir)
    \/ clone_update_and_save
    \/ \E target_dir \in Paths : remove(target_dir)
    \/ \E root \in Paths : Call_list_repos(root)
    \/ ls_CACHE
    \/ statics.ls_CACHE /\ ls_validate_and_update
    \/ ls_lookup
    \/ ls_walk
    \/ ls_flush
    \/ ls_save

SpecProcess == InitProcess /\ [][NextProcess]_vars

(***************************************************************************)
(* Claims checked under SpecProcess.                                       *)
(***************************************************************************)
\* the CACHE of lib.rs, which clone records in, holds an entry for p that
\* Cache::validate_entry accepts now
RecordedValid(p) ==
    /\ statics.lib_CACHE # None
    /\ p \in DOMAIN statics.lib_CACHE[1]
    /\ ~validate_entry_panics(statics.lib_CACHE[1][p])
    /\ validate_entry(statics.lib_CACHE[1][p], config.ttl_seconds)

\* C20: all cache operations of one process go through a single Cache
\* instance: an entry recorded by clone that is still valid is in the map
\* list_repos reads, and is in the cache file whatever list_repos has saved
\* since.
C20_SingleCacheInstance ==
    \A p \in Paths :
        RecordedValid(p) =>
            /\ (statics.ls_CACHE /\ ~poisoned) => p \in DOMAIN entries
            /\ p \in DOMAIN with_config(file)

\* C20 (the divergence): list_repos has returned Ok and its save has left a
\* cache file without the valid entry clone recorded
C20_ListReposDroppedCloneEntry ==
    /\ ls.pc = "done"
    /\ ls.result = "Ok"
    /\ ls.saved
    /\ \E p \in Paths : RecordedValid(p) /\ p \notin DOMAIN with_config(file)

\* C20 for an ls.rs CACHE that is first used after the clone: built from the
\* file clone has saved, it holds every valid entry clone recorded
C20_VisibleWhenBuiltAfterClone ==
    [][ls_CACHE => \A p \in Paths : RecordedValid(p) => p \in DOMAIN entries']_vars

(***************************************************************************)
(* SpecRace: two processes persist the same cache file at the same time.   *)
(* Each has its own Cache and lock, so nothing orders their steps: the     *)
(* File::create and the write_all of fs::write, and the rename.  Both use  *)
(* the same temp path.  An open file is the inode, not the name: it        *)
(* follows a rename, and is truncated by the other process's create.       *)
(***************************************************************************)
Processes == {"p1", "p2"}

\* the snapshots a process persists: texts of different lengths
Snapshots ==
    {Serialize(Restrict([p \in Paths |-> [path |-> p, last_modified |-> 0, last_checked |-> 0]],
                        S)) : S \in {{}, {Root}, Paths}}

\* the length of a text grows with the entries it holds
Size(text) == IF text.kind = "json" THEN Cardinality(DOMAIN text.entries) + 1 ELSE 0

\* write_all of text at offset 0 of a file that holds content: a longer
\* content keeps its tail behind the text
Overlay(content, text) ==
    IF content = text \/ (content.kind # "garbage" /\ Size(content) <= Size(text))
    THEN text
    ELSE Garbage

\* a process that is about to persist json
Persisting(json) == [pc |-> "create", json |-> json, fd |-> "none", result |-> "none",
                     overlapped |-> FALSE]

\* the other process is between its File::create and its rename
InPersist(p) == th[p].pc \in {"write_all", "rename"}

raceVars == <<now, fs, fault, build, config, entries, poisoned, last, rw, ls, statics>>

\* fs::write, first half: File::create(&temp_path) creates the temp file or
\* truncates the one that is there
persist_create(p) ==
    /\ th[p].pc = "create"
    /\ disk' = fs_write_begin(disk, temp_path(config.cache_path))
    /\ th' = [q \in Processes |->
                IF q = p
                THEN [th[q] EXCEPT !.pc = "write_all", !.fd = "temp",
                                   !.overlapped = \E r \in Processes \ {p} : InPersist(r)]
                ELSE [th[q] EXCEPT !.overlapped = @ \/ InPersist(q)]]
    /\ UNCHANGED raceVars

\* fs::write, second half: write_all(json) into the open file, wherever a
\* rename has moved it, and close
persist_write_all(p) ==
    /\ th[p].pc = "write_all"
    /\ disk' = CASE th[p].fd = "temp" ->
                      [disk EXCEPT ![temp_path(config.cache_path)] = Overlay(@, th[p].json)]
                 [] th[p].fd = "target" ->
                      [disk EXCEPT ![config.cache_path] = Overlay(@, th[p].json)]
                 [] OTHER -> disk
    /\ th' = [th EXCEPT ![p].pc = "rename", ![p].fd = "none"]
    /\ UNCHANGED raceVars

\* fs::rename(&temp_path, &self.cache_path): fails when the temp file is
\* gone, and then remove_file finds nothing; otherwise the temp file's inode
\* replaces the target's
persist_rename(p) ==
    /\ th[p].pc = "rename"
    /\ UNCHANGED raceVars
    /\ IF tmp = Absent
       THEN /\ th' = [th EXCEPT ![p].pc = "done", ![p].result = "IoError"]
            /\ UNCHANGED disk
       ELSE /\ disk' = fs_rename(disk, temp_path(config.cache_path), config.cache_path)
            /\ th' = [q \in Processes |->
                        IF q = p THEN [th[q] EXCEPT !.pc = "done", !.result = "Ok"]
                        ELSE [th[q] EXCEPT !.fd = CASE @ = "temp" -> "target"
                                                    [] @ = "target" -> "unlinked"
                                                    [] OTHER -> @]]

InitRace ==
    /\ now = 0
    /\ fs = [p \in Paths |-> "repo"]
    /\ fault = "none"
    /\ build = [overflow_checks |-> FALSE]
    /\ config = [ttl_seconds |-> MaxTime - 1, max_entries |-> None,
                 cache_path |-> DefaultCachePath]
    /\ entries = EmptyEntries
    /\ poisoned = FALSE
    /\ last = Returned("with_config", "Ok", None)
    /\ rw = [writer |-> None, readers |-> {}]
    /\ ls = <<>>
    /\ statics = OneCache
    /\ \E text \in PersistedFiles :
         disk = [f \in FileNames |-> IF f = DefaultCachePath THEN text ELSE Absent]
    /\ th \in [Processes -> {Persisting(json) : json \in Snapshots}]

NextRace ==
    \/ \E p \in Processes : persist_create(p)
    \/ \E p \in Processes : persist_write_all(p)
    \/ \E p \in Processes : persist_rename(p)

SpecRace == InitRace /\ [][NextRace]_vars

(***************************************************************************)
(* Claims checked under SpecRace.                                          *)
(***************************************************************************)
\* both processes have returned from their persist
BothDone == \A p \in Processes : th[p].pc = "done"

\* C21: when two processes persist the same cache file concurrently, in
\* every interleaving of their temp-file writes and renames the final cache
\* file is exactly the complete snapshot of one of the two.
C21_FinalFileIsOneSnapshot ==
    BothDone => \E p \in Processes : file = th[p].json

\* C21 (the divergence): both persists are over and the cache file holds a
\* mix of the two snapshots
C21_FinalFileMixed ==
    /\ BothDone
    /\ file = Garbage
    /\ \E p \in Processes : th[p].result = "Ok"

\* C21 for persists that do not overlap: no process creates the temp file
\* while the other is between its create and its rename
C21_FinalFileIsOneSnapshotInTurn ==
    (BothDone /\ \A p \in Processes : ~th[p].overlapped)
        => \E p \in Processes : file = th[p].json /\ th[p].result = "Ok"

(***************************************************************************)
(* SpecCli: how list_repos comes by its WalkerConfig: from the flags of    *)
(* the ls command (main.rs 27-46, 79-96) or, for a caller that gives none, *)
(* from WalkerConfig::default (ls.rs 36-47, 54).                           *)
(***************************************************************************)
\* the flags of `rkit ls` as clap parses them: an option not given is None,
\* a switch not given is false
LsArgs ==
    [max_depth : {None, Some(1), Some(4)},
     follow_links : BOOLEAN,
     same_file_system : BOOLEAN,
     threads : {None} \cup {Some(n) : n \in 1..MaxWorkers},
     max_repos : {None} \cup {Some(m) : m \in 0..MaxRepos}]

\* `rkit ls` with no flags
NoFlags ==
    [max_depth |-> None, follow_links |-> FALSE, same_file_system |-> FALSE,
     threads |-> None, max_repos |-> None]

\* impl Default for WalkerConfig
WalkerConfig_default(num_cpus) ==
    [max_depth |-> Some(4), follow_links |-> FALSE, same_file_system |-> TRUE,
     threads |-> num_cpus, max_repos |-> None, stop_at_git |-> TRUE]

\* main.rs 87-94: the WalkerConfig that Commands::Ls builds from its flags
Commands_Ls(args, num_cpus) ==
    [max_depth |-> args.max_depth,
     follow_links |-> args.follow_links,
     same_file_system |-> args.same_file_system,
     threads |-> IF args.threads = None THEN num_cpus ELSE args.threads[1],
     max_repos |-> args.max_repos,
     stop_at_git |-> TRUE]

cliVars == <<now, fs, fault, build, config, entries, poisoned, disk, last, rw, th, statics>>

\* main: the ls command hands list_repos the config built from its flags
main_Ls ==
    /\ ls.pc = "main"
    /\ ls' = [ls EXCEPT !.pc = "list_repos",
                        !.given = Some(Commands_Ls(ls.args, ls.num_cpus))]
    /\ UNCHANGED cliVars

\* a caller of the library hands list_repos no config
call_without_config ==
    /\ ls.pc = "main"
    /\ ls' = [ls EXCEPT !.pc = "list_repos", !.given = None]
    /\ UNCHANGED cliVars

\* ls.rs 54: let config = config.unwrap_or_default()
unwrap_or_default ==
    /\ ls.pc = "list_repos"
    /\ ls' = [ls EXCEPT !.pc = "walk",
                        !.config = IF ls.given = None
                                   THEN WalkerConfig_default(ls.num_cpus)
                                   ELSE ls.given[1]]
    /\ UNCHANGED cliVars

InitCli ==
    /\ now = 0
    /\ fs = [p \in Paths |-> "repo"]
    /\ fault = "none"
    /\ build = [overflow_checks |-> FALSE]
    /\ config = [ttl_seconds |-> MaxTime - 1, max_entries |-> None,
                 cache_path |-> DefaultCachePath]
    /\ entries = EmptyEntries
    /\ poisoned = FALSE
    /\ disk = [f \in FileNames |-> Absent]
    /\ last = Returned("with_config", "Ok", None)
    /\ rw = [writer |-> None, readers |-> {}]
    /\ th = <<>>
    /\ statics = OneCache
    /\ \E args \in LsArgs, num_cpus \in 1..MaxWorkers :
         ls = [pc |-> "main", args |-> args, num_cpus |-> num_cpus,
               given |-> None, config |-> None]

NextCli ==
    \/ main_Ls
    \/ call_without_config
    \/ unwrap_or_default

SpecCli == InitCli /\ [][NextCli]_vars

(***************************************************************************)
(* Claims checked under SpecCli.                                           *)
(***************************************************************************)
\* the defaults as C25 lists them
StatedDefaults(wc) ==
    /\ wc.max_depth = Some(4)
    /\ wc.follow_links = FALSE
    /\ wc.same_file_system = TRUE
    /\ wc.threads > 0
    /\ wc.max_repos = None
    /\ wc.stop_at_git = TRUE

\* C25: the walker configuration used when the caller gives none has
\* max_depth = 4, follow_links = false, same_file_system = true, threads > 0,
\* max_repos unbounded and stop_at_git = true, and the ls command invoked
\* with no flags runs the walk with these same defaults.
C25_DefaultsAlsoForLsWithoutFlags ==
    (ls.pc = "walk" /\ (ls.given = None \/ ls.args = NoFlags)) => StatedDefaults(ls.config)

\* C25 (the divergence): ls without flags walks with no depth bound and
\* across file systems
C25_LsWithoutFlagsUnbounded ==
    /\ ls.pc = "walk"
    /\ ls.args = NoFlags
    /\ ls.given # None
    /\ ls.config.max_depth = None
    /\ ls.config.same_file_system = FALSE

\* C25 for the caller that gives no config
C25_DefaultsWhenNoneGiven ==
    (ls.pc = "walk" /\ ls.given = None) => StatedDefaults(ls.config)

(***************************************************************************)
(* SpecUrl: clone and the parsing of its URL (clone.rs 14-115).  A URL is  *)
(* the sequence of its pieces: the scheme prefix, the separators @ : /,    *)
(* a run of name characters, and the suffix .git.                          *)
(***************************************************************************)
\* the longest URL of the model, in pieces
MaxUrlLen == 7

UrlPieces == {"https://", "@", ":", "/", "a", ".git"}

\* the scheme prefix stands only at the start of a URL
Urls ==
    {u \in UNION {[1..n -> UrlPieces] : n \in 0..MaxUrlLen} :
        \A i \in 2..Len(u) : u[i] # "https://"}

\* str::find and str::rfind of a separator: its position, 0 when absent
find(u, c) ==
    IF \E i \in 1..Len(u) : u[i] = c
    THEN CHOOSE i \in 1..Len(u) : u[i] = c /\ \A j \in 1..(i - 1) : u[j] # c
    ELSE 0

rfind(u, c) ==
    IF \E i \in 1..Len(u) : u[i] = c
    THEN CHOOSE i \in 1..Len(u) : u[i] = c /\ \A j \in (i + 1)..Len(u) : u[j] # c
    ELSE 0

\* str::split
RECURSIVE split(_, _)
split(u, c) ==
    IF find(u, c) = 0 THEN <<u>>
    ELSE <<SubSeq(u, 1, find(u, c) - 1)>> \o split(SubSeq(u, find(u, c) + 1, Len(u)), c)

\* repo.trim_end_matches(".git") removes every repetition of the suffix
RECURSIVE trim_git_suffix(_)
trim_git_suffix(repo) ==
    IF Len(repo) > 0 /\ repo[Len(repo)] = ".git"
    THEN trim_git_suffix(SubSeq(repo, 1, Len(repo) - 1))
    ELSE repo

InvalidRepoUrl == [result |-> "InvalidRepoUrl", domain |-> <<>>, org |-> <<>>, repo |-> <<>>]

ParsedRepoUrl(domain, org, repo) ==
    [result |-> "Ok", domain |-> domain, org |-> org, repo |-> repo]

\* the slashes Url::parse skips between the scheme and the authority
RECURSIVE skip_slashes(_)
skip_slashes(u) == IF Len(u) > 0 /\ u[1] = "/" THEN skip_slashes(Tail(u)) ELSE u

\* Url::parse of an http(s) URL: the host and the path segments, or the
\* failure.  The authority ends at the first slash; what follows its last @
\* is host[:port], and a port must be digits; without a path the path is /
Url_parse(url) ==
    LET rest == skip_slashes(Tail(url))
        slash == find(rest, "/")
        authority == IF slash = 0 THEN rest ELSE SubSeq(rest, 1, slash - 1)
        hostport == SubSeq(authority, rfind(authority, "@") + 1, Len(authority))
        colon == find(hostport, ":")
        host == IF colon = 0 THEN hostport ELSE SubSeq(hostport, 1, colon - 1)
        port == IF colon = 0 THEN <<>> ELSE SubSeq(hostport, colon + 1, Len(hostport))
    IN  IF host = <<>> \/ port # <<>>
        THEN [ok |-> FALSE, host |-> <<>>, path_segments |-> <<>>]
        ELSE [ok |-> TRUE, host |-> host,
              path_segments |-> IF slash = 0 THEN <<<<>>>>
                                ELSE split(SubSeq(rest, slash + 1, Len(rest)), "/")]

parse_https_url(url) ==
    LET parsed_url == Url_parse(url)
    IN  IF ~parsed_url.ok THEN InvalidRepoUrl
        ELSE IF Len(parsed_url.path_segments) < 2 THEN InvalidRepoUrl
        ELSE ParsedRepoUrl(parsed_url.host,
                           parsed_url.path_segments[1],
                           trim_git_suffix(parsed_url.path_segments[2]))

\* &url[url.find('@') + 1..idx] panics when the first @ is behind the last
\* colon
parse_ssh_url(url) ==
    LET idx == rfind(url, ":")
        at == find(url, "@")
        domain_part == SubSeq(url, at + 1, idx - 1)
        path_parts == split(SubSeq(url, idx + 1, Len(url)), "/")
    IN  IF idx = 0 THEN InvalidRepoUrl
        ELSE IF at = 0 THEN InvalidRepoUrl
        ELSE IF at + 1 > idx
        THEN [result |-> "panic", domain |-> <<>>, org |-> <<>>, repo |-> <<>>]
        ELSE IF Len(path_parts) # 2 THEN InvalidRepoUrl
        ELSE ParsedRepoUrl(split(domain_part, ":")[1],
                           path_parts[1],
                           trim_git_suffix(path_parts[2]))

starts_with_http(url) == Len(url) > 0 /\ url[1] = "https://"

contains_at(url) == find(url, "@") # 0

parse_repo_url(url) ==
    IF starts_with_http(url) THEN parse_https_url(url)
    ELSE IF contains_at(url) THEN parse_ssh_url(url)
    ELSE InvalidRepoUrl

urlVars == <<now, fs, fault, build, config, entries, poisoned, disk, last, rw, th, statics>>

\* clone.rs 110: let parsed_url = parse_repo_url(url)?
clone_parse_repo_url ==
    /\ ls.pc = "clone"
    /\ LET parsed_url == parse_repo_url(ls.url)
       IN  ls' = [ls EXCEPT !.parsed = parsed_url,
                            !.pc = CASE parsed_url.result = "Ok" -> "git"
                                     [] parsed_url.result = "panic" -> "panicked"
                                     [] OTHER -> "returned",
                            !.result = IF parsed_url.result = "Ok" THEN "none"
                                       ELSE parsed_url.result]
    /\ UNCHANGED urlVars

\* clone.rs 117-150: the parent directories and git clone, which can fail
clone_git_clone ==
    /\ ls.pc = "git"
    /\ \E cloned \in BOOLEAN :
         ls' = [ls EXCEPT !.git = TRUE,
                          !.pc = IF cloned THEN "cache" ELSE "returned",
                          !.result = IF cloned THEN "none" ELSE "GitError"]
    /\ UNCHANGED urlVars

\* clone.rs 152-158: CACHE.update_and_save(&target_dir), then Ok(())
clone_cache ==
    /\ ls.pc = "cache"
    /\ ls' = [ls EXCEPT !.cached = TRUE, !.pc = "returned", !.result = "Ok"]
    /\ UNCHANGED urlVars

InitUrl ==
    /\ now = 0
    /\ fs = [p \in Paths |-> "repo"]
    /\ fault = "none"
    /\ build = [overflow_checks |-> FALSE]
    /\ config = [ttl_seconds |-> MaxTime - 1, max_entries |-> None,
                 cache_path |-> DefaultCachePath]
    /\ entries = EmptyEntries
    /\ poisoned = FALSE
    /\ disk = [f \in FileNames |-> Absent]
    /\ last = Returned("with_config", "Ok", None)
    /\ rw = [writer |-> None, readers |-> {}]
    /\ th = <<>>
    /\ statics = OneCache
    /\ \E url \in Urls :
         ls = [pc |-> "clone", url |-> url, parsed |-> InvalidRepoUrl,
               git |-> FALSE, cached |-> FALSE, result |-> "none"]

NextUrl ==
    \/ clone_parse_repo_url
    \/ clone_git_clone
    \/ clone_cache

SpecUrl == InitUrl /\ [][NextUrl]_vars

(***************************************************************************)
(* Claims checked under SpecUrl.                                           *)
(***************************************************************************)
\* the organization and repository segments of a URL in HTTP(S) or SSH
\* form: what follows the host, or the last colon, split at the slashes
Segments(url) ==
    IF starts_with_http(url)
    THEN (IF Url_parse(url).ok THEN Url_parse(url).path_segments ELSE <<>>)
    ELSE split(SubSeq(url, rfind(url, ":") + 1, Len(url)), "/")

\* the URL has a non-empty organization and a non-empty repository segment
HasOrgAndRepo(url) ==
    /\ Len(Segments(url)) >= 2
    /\ Segments(url)[1] # <<>>
    /\ Segments(url)[2] # <<>>

\* a segment with a trailing ".git" removed
WithoutGitSuffix(repo) ==
    IF Len(repo) > 0 /\ repo[Len(repo)] = ".git"
    THEN SubSeq(repo, 1, Len(repo) - 1)
    ELSE repo

\* parse_repo_url has run
Parsed == ls.pc # "clone"

\* C26: parse_repo_url returns an error for every URL that is neither
\* HTTP(S) nor SSH form and for every HTTP(S) or SSH URL that lacks a
\* non-empty organization or a non-empty repository segment; otherwise it
\* returns (domain, org, repo) with a trailing ".git" removed from repo.
\* clone with a URL that fails to parse returns an error without running git
\* or touching the cache.
C26_ParseRepoUrl ==
    Parsed =>
        /\ (~starts_with_http(ls.url) /\ ~contains_at(ls.url))
              => ls.parsed.result = "InvalidRepoUrl"
        /\ ((starts_with_http(ls.url) \/ contains_at(ls.url)) /\ ~HasOrgAndRepo(ls.url))
              => ls.parsed.result = "InvalidRepoUrl"
        /\ ls.parsed.result = "Ok"
              => /\ ls.parsed.org = Segments(ls.url)[1]
                 /\ ls.parsed.repo = WithoutGitSuffix(Segments(ls.url)[2])
        /\ ls.parsed.result # "Ok"
              => ~ls.git /\ ~ls.cached /\ ls.result = "InvalidRepoUrl"

\* C26 (the divergence): a URL with an empty organization segment has been
\* parsed and git has been run on it
C26_EmptyOrgCloned ==
    /\ ls.pc = "returned"
    /\ ls.parsed.result = "Ok"
    /\ ls.parsed.org = <<>>
    /\ ls.git

\* the part of C26 that holds: a URL in neither form, an HTTP(S) URL
\* with fewer than two path segments and an SSH URL without exactly two
\* parts are errors, a parsed URL gives the first two segments with every
\* ".git" suffix removed, and a clone whose URL was refused has run no git
\* and touched no cache
C26_ParseRepoUrlBySegmentCount ==
    Parsed =>
        /\ (~starts_with_http(ls.url) /\ ~contains_at(ls.url))
              => ls.parsed.result = "InvalidRepoUrl"
        /\ (starts_with_http(ls.url) /\ Len(Segments(ls.url)) < 2)
              => ls.parsed.result = "InvalidRepoUrl"
        /\ ls.parsed.result = "Ok"
              => /\ ls.parsed.org = Segments(ls.url)[1]
                 /\ ls.parsed.repo = trim_git_suffix(Segments(ls.url)[2])
        /\ ls.parsed.result = "InvalidRepoUrl"
              => ~ls.git /\ ~ls.cached /\ ls.result = "InvalidRepoUrl"

(***************************************************************************)
(* SpecView: view_repo step by step (view.rs 7-115): the three checks of   *)
(* the path, then the configured commands one after the other or, without  *)
(* any, the README or the directory listing.                               *)
(***************************************************************************)
\* a configured command: its text is blank or names a program, which runs
\* or cannot be spawned
ViewCmds == {"blank", "runs", "unspawnable"}

\* the commands argument: None, or a list of commands
ViewCommands ==
    {None} \cup {Some(cs) : cs \in {<<>>, <<"runs">>, <<"unspawnable">>,
                                    <<"blank", "runs">>, <<"runs", "runs">>,
                                    <<"runs", "unspawnable">>}}

viewVars == <<now, fs, fault, build, config, entries, poisoned, disk, last, rw, th, statics>>

\* a view_repo that goes on to the .git check whatever the path is
view_exists_unchecked ==
    /\ ls.pc = "exists"
    /\ ls' = [ls EXCEPT !.pc = "git"]
    /\ UNCHANGED viewVars

\* view.rs 9-12: if !repo_path.exists()
view_exists ==
    /\ ls.pc = "exists"
    /\ ls' = IF exists(ls.repo_path)
             THEN [ls EXCEPT !.pc = "git"]
             ELSE [ls EXCEPT !.pc = "returned", !.result = "RepoNotFoundError"]
    /\ UNCHANGED viewVars

\* view.rs 15-22: if !repo_path.join(".git").exists()
view_git_dir ==
    /\ ls.pc = "git"
    /\ ls' = IF is_git_repo(ls.repo_path)
             THEN [ls EXCEPT !.pc = "read_dir"]
             ELSE [ls EXCEPT !.pc = "returned", !.result = "InvalidPathError"]
    /\ UNCHANGED viewVars

\* view.rs 25-31: if repo_path.read_dir().is_err()
view_read_dir ==
    /\ ls.pc = "read_dir"
    /\ ls' = IF ls.readable
             THEN [ls EXCEPT !.pc = IF ls.commands = None THEN "fallback" ELSE "commands"]
             ELSE [ls EXCEPT !.pc = "returned", !.result = "PermissionError"]
    /\ UNCHANGED viewVars

\* view.rs 33-66: one pass of the loop over the commands, and Ok(()) behind
\* the last
view_command ==
    /\ ls.pc = "commands"
    /\ LET cmds == ls.commands[1]
       IN  IF ls.i > Len(cmds)
           THEN ls' = [ls EXCEPT !.pc = "returned", !.result = "Ok"]
           ELSE IF cmds[ls.i] = "blank"
           THEN ls' = [ls EXCEPT !.i = @ + 1]
           ELSE IF cmds[ls.i] = "unspawnable"
           THEN ls' = [ls EXCEPT !.pc = "returned", !.result = "ShellCommandError",
                                 !.out = Append(@, "label")]
           ELSE ls' = [ls EXCEPT !.i = @ + 1, !.ran = @ + 1,
                                 !.out = Append(@, "label")]
    /\ UNCHANGED viewVars

\* view.rs 67-113: the README when there is one, else ls -la
view_fallback ==
    /\ ls.pc = "fallback"
    /\ \E ok \in BOOLEAN :
         ls' = IF ok
               THEN [ls EXCEPT !.pc = "returned", !.result = "Ok", !.ran = @ + 1,
                               !.out = Append(@, IF ls.readme THEN "README"
                                                 ELSE "Directory Listing")]
               ELSE [ls EXCEPT !.pc = "returned",
                               !.result = IF ls.readme THEN "FileReadError"
                                          ELSE "ShellCommandError",
                               !.out = Append(@, IF ls.readme THEN "README"
                                                 ELSE "Directory Listing")]
    /\ UNCHANGED viewVars

InitView ==
    /\ now = 0
    /\ fs \in FsStates
    /\ fault = "none"
    /\ build = [overflow_checks |-> FALSE]
    /\ config = [ttl_seconds |-> MaxTime - 1, max_entries |-> None,
                 cache_path |-> DefaultCachePath]
    /\ entries = EmptyEntries
    /\ poisoned = FALSE
    /\ disk = [f \in FileNames |-> Absent]
    /\ last = Returned("with_config", "Ok", None)
    /\ rw = [writer |-> None, readers |-> {}]
    /\ th = <<>>
    /\ statics = OneCache
    /\ \E repo_path \in Paths, commands \in ViewCommands, readable \in BOOLEAN,
          readme \in BOOLEAN :
         /\ readable => exists(repo_path)
         /\ readme => exists(repo_path)
         /\ ls = [pc |-> "exists", repo_path |-> repo_path, commands |-> commands,
                  readable |-> readable, readme |-> readme,
                  i |-> 1, ran |-> 0, out |-> <<>>, result |-> "none"]

NextView ==
    \/ view_exists
    \/ view_git_dir
    \/ view_read_dir
    \/ view_command
    \/ view_fallback

SpecView == InitView /\ [][NextView]_vars

(***************************************************************************)
(* Claims checked under SpecView.                                          *)
(***************************************************************************)
\* view_repo has run or printed nothing
NothingRun == ls.ran = 0 /\ ls.out = <<>>

InitSave ==
    /\ InitCommon
    /\ fs = [p \in Paths |-> "repo"]
    /\ fault = "none"
    /\ rw = [writer |-> None, readers |-> {}]
    /\ th = [t \in Threads |-> IdleThread]
    /\ ls = <<>>
    /\ config = [ttl_seconds |-> MaxTime - 1, max_entries |-> None,
                 cache_path |-> DefaultCachePath]
    /\ \E text \in PersistedFiles :
         /\ disk = [f \in FileNames |-> IF f = config.cache_path THEN text ELSE Absent]
         /\ entries = with_config(text)

NextSave ==
    \/ \E t \in Threads : Call_save(t)
    \/ \E ps \in Batches : Call_update_and_save_many("t1", ps)
    \/ \E e \in EntryInputs : Call_insert("t2", e.path, e)
    \/ Call_validate_and_update("t2")
    \/ \E t \in Threads : StepLockWrite(t)
    \/ \E t \in Threads : StepLockRead(t)
    \/ \E t \in Threads : StepCheckFull(t)
    \/ \E t \in Threads : StepRetain(t)
    \/ \E t \in Threads : StepInsert(t)
    \/ \E t \in Threads : StepCreateDir(t)
    \/ \E t \in Threads : StepWriteBegin(t)
    \/ \E t \in Threads : StepWriteEnd(t)
    \/ \E t \in Threads : StepRename(t)

SpecSave == InitSave /\ [][NextSave]_vars

(***************************************************************************)
(* Claims checked under SpecSave.                                          *)
(***************************************************************************)
\* thread t is in its persist sequence: between the creation of the temp
\* file and the rename
InPersistSequence(t) ==
    th[t].pc \in {"writing", "writing_target", "writing_unlinked", "rename"}

\* C31: within one process no two persist sequences overlap: whatever the
\* interleaving of threads calling save, insert, validate_and_update and
\* update_and_save_many, at most one thread is between its temp-file write
\* and its rename, and the target file changes only by a rename, to the
\* complete text the renaming persist serialized.
C31_PersistsNeverOverlap ==
    /\ [](\A t, u \in Threads :
            (InPersistSequence(t) /\ InPersistSequence(u)) => t = u)
    /\ [][file' # file =>
            \E t \in Threads : /\ th[t].pc = "rename"
                               /\ file' = th[t].json
                               /\ file' = Serialize(entries)]_vars

\* C31 (the divergence): two calls of save, each under a read guard, have
\* overlapped, and the rename of one has put onto the target the temp file
\* the other had truncated and not yet written
C31_TruncatedTempRenamed ==
    /\ file = Partial
    /\ tmp = Absent
    /\ th["t1"].pc = "idle"
    /\ last = Returned("save", "Ok", None)
    /\ th["t2"].op = "save"
    /\ th["t2"].pc = "writing_target"
    /\ rw.readers = {"t2"}

\* C31 for the persists under the write guard: while a thread holds
\* the write guard no other thread is in a persist sequence, and the
\* target changes only by the rename of the one persist, to its text
C31_PersistsUnderWriteGuardAlone ==
    /\ [](\A t, u \in Threads :
            (rw.writer = Some(t) /\ InPersistSequence(u)) => t = u)
    /\ [][(rw.writer # None /\ file' # file) =>
            \E t \in Threads : /\ rw.writer = Some(t)
                               /\ th[t].pc = "rename"
                               /\ file' = th[t].json
                               /\ file' = Serialize(entries)]_vars

====
